---- MODULE Spec2Model ----
(***************************************************************************)
(* Resource-management core: Resource (src/src/models/resource.py),        *)
(* Reservation / ReservationManager (src/src/protocols/reservation.py) and *)
(* ResourceAllocator (src/src/allocation/allocator.py) in Spec;            *)
(* PriorityAllocationPolicy and QuotaAllocationPolicy                      *)
(* (src/src/policies/allocation_policy.py) in PrioritySpec and QuotaSpec;  *)
(* a Resource called directly in ResourceSpec; ResourcePool                *)
(* (src/src/pooling/pool.py) in PoolSpec; ContentionDetector and           *)
(* ContentionResolver (src/src/contention/detector.py) in DetectorSpec;    *)
(* MetricsCollector (src/src/monitoring/metrics.py) in MetricsSpec;        *)
(* ResourceScaler (src/src/scaling/scaler.py) in ScalerSpec;               *)
(* ResourceRequirement.can_be_satisfied_by with constraints in             *)
(* RequirementSpec; ResourcePoolManager (src/src/pooling/pool.py) in       *)
(* ManagerSpec; threads calling one ResourceScaler in ThreadSpec;          *)
(* PriorityAllocationPolicy with an allocator of the embedder in           *)
(* SweepSpec; ResourceDashboard (src/src/monitoring/dashboard.py) in       *)
(* DashboardSpec; ResourceValidator (src/src/validation/validator.py) in   *)
(* ValidatorSpec.                                                          *)
(* Every specification leaves the variables of the other components as     *)
(* they are.                                                               *)
(*                                                                         *)
(* Time is the value of time.time() in whole seconds.  Diagnostic message  *)
(* strings (Reservation.message, AllocationResult.message) are not part of *)
(* the modelled state.                                                     *)
(***************************************************************************)
EXTENDS Integers, Sequences, FiniteSets, TLC

VARIABLES resource_registry, registry_order, active_reservations, now,
          pending_allocations, ret,
          requester_priorities, priority_pending, quotas,
          resource, pool, detector,
          collector, scaler,
          pool_manager, dashboard, threads, validator

(* ReservationManager and ResourceAllocator *)
manager_vars == <<resource_registry, registry_order, active_reservations, now,
                  pending_allocations, ret>>

(* PriorityAllocationPolicy and QuotaAllocationPolicy *)
policy_vars == <<requester_priorities, priority_pending, quotas>>

(* a Resource on its own, a ResourcePool, and a ContentionDetector with its
   ContentionEvents *)
component_vars == <<resource, pool, detector>>

(* MetricsCollector.metrics and a ResourceScaler *)
control_vars == <<collector, scaler>>

(* a ResourcePoolManager, a ResourceDashboard, the threads that call a
   ResourceScaler, and a ResourceValidator *)
service_vars == <<pool_manager, dashboard, threads, validator>>

vars == <<manager_vars, policy_vars, component_vars, control_vars, service_vars>>

----------------------------------------------------------------------------
(* Bounds of the model *)

MaxReservations == 2
MaxRequirements == 2
MaxTicks == 1
MaxCurrent == 2

(* Program constants *)

DefaultTimeout == 300
CooldownSeconds == 300

----------------------------------------------------------------------------
(* Input domains *)

None == "None"

Requesters == {"task-1"}

Strategies == {"greedy", "balanced", "optimized", "priority"}

(* Seconds that pass between two observations of the clock. *)
TickStep == DefaultTimeout + 1

Timeouts == {DefaultTimeout}

(* The resources the embedder registers, in this order. *)
Catalog ==
  << [id |-> "r1", resource_type |-> "compute", maximum |-> 2],
     [id |-> "r2", resource_type |-> "compute", maximum |-> 1] >>

ResourceIds == {Catalog[i].id : i \in 1..Len(Catalog)}

Requirements ==
  { [resource_type |-> "compute", amount |-> 1,  priority |-> 0, preferred_resources |-> {"r2"}],
    [resource_type |-> "compute", amount |-> 2,  priority |-> 1, preferred_resources |-> {}],
    [resource_type |-> "memory",  amount |-> 1,  priority |-> 0, preferred_resources |-> {}],
    [resource_type |-> "compute", amount |-> -1, priority |-> 0, preferred_resources |-> {"r2"}] }

RequirementLists ==
  UNION { [1..n -> Requirements] : n \in 1..MaxRequirements }

----------------------------------------------------------------------------
(* Resource (models/resource.py) *)

available(r) == r.maximum - r.current

is_available(r) == r.state = "available" /\ available(r) > 0

(* Resource.reserve without the is_available test of line 136 *)
reserve_without_availability_test(r, amount, owner_id) ==
  IF amount > available(r)
  THEN <<FALSE, r>>
  ELSE <<TRUE,
         [r EXCEPT !.current = r.current + amount,
                   !.state = IF r.current + amount >= r.maximum
                             THEN "reserved" ELSE r.state,
                   !.owner_id = owner_id]>>

(* Resource.reserve: the pair <<returned value, resource afterwards>> *)
reserve(r, amount, owner_id) ==
  IF ~is_available(r) \/ amount > available(r)
  THEN <<FALSE, r>>
  ELSE <<TRUE,
         [r EXCEPT !.current = r.current + amount,
                   !.state = IF r.current + amount >= r.maximum
                             THEN "reserved" ELSE r.state,
                   !.owner_id = owner_id]>>

(* Resource.release: the pair <<returned value, resource afterwards>> *)
release(r, amount) ==
  IF r.current < amount
  THEN <<FALSE, r>>
  ELSE <<TRUE,
         [r EXCEPT !.current = r.current - amount,
                   !.state = IF r.state \in {"reserved", "in_use"}
                             THEN "available" ELSE r.state,
                   !.owner_id = IF r.current - amount = 0
                                THEN None ELSE r.owner_id]>>

(* ResourceRequirement.can_be_satisfied_by, for a requirement without
   constraints *)
can_be_satisfied_by(req, r) ==
  /\ r.resource_type = req.resource_type
  /\ available(r) >= req.amount

utilization_num(r) == IF r.maximum = 0 THEN 0 ELSE r.current
utilization_den(r) == IF r.maximum = 0 THEN 1 ELSE r.maximum

(* ResourceCapacity.utilization_percentage of x is below that of y; the
   percentages are current/maximum*100, compared as fractions *)
utilization_less(x, y) ==
  IF utilization_den(x) * utilization_den(y) > 0
  THEN utilization_num(x) * utilization_den(y) < utilization_num(y) * utilization_den(x)
  ELSE utilization_num(x) * utilization_den(y) > utilization_num(y) * utilization_den(x)

----------------------------------------------------------------------------
(* Reservation and ReservationManager (protocols/reservation.py) *)

(* Reservation.is_expired *)
is_expired(reservation, t) == t > reservation.expires_at

(* ReservationManager.get_available_resources: resource ids in registry
   order *)
get_available_resources(registry, order, req) ==
  SelectSeq(order, LAMBDA id :
              is_available(registry[id]) /\ can_be_satisfied_by(req, registry[id]))

(* twice the combined score of _apply_optimized_strategy, as the fraction
   score_num / score_den:
   2 * combined = (1 - utilization/100) + capability_score *)
score_num(req, r) ==
  2 * (utilization_den(r) - utilization_num(r))
    + (IF r.id \in req.preferred_resources THEN 2 ELSE 1) * utilization_den(r)
score_den(r) == 2 * utilization_den(r)

(* a sort that puts the least available capacity and the highest utilization
   first *)
sorts_before_reversed(strategy, req, x, y) ==
  CASE strategy = "greedy" ->
         available(x) < available(y)
    [] strategy = "balanced" ->
         utilization_less(y, x)
    [] strategy = "optimized" ->
         IF score_den(x) * score_den(y) > 0
         THEN score_num(req, x) * score_den(y) > score_num(req, y) * score_den(x)
         ELSE score_num(req, x) * score_den(y) < score_num(req, y) * score_den(x)
    [] strategy = "priority" ->
         LET px == x.id \in req.preferred_resources
             py == y.id \in req.preferred_resources
         IN  \/ px /\ ~py
             \/ (px <=> py) /\ available(x) > available(y)

(* the sort key of x puts it strictly before y in the strategy's sort *)
sorts_before(strategy, req, x, y) ==
  CASE strategy = "greedy" ->
         available(x) > available(y)
    [] strategy = "balanced" ->
         utilization_less(x, y)
    [] strategy = "optimized" ->
         IF score_den(x) * score_den(y) > 0
         THEN score_num(req, x) * score_den(y) > score_num(req, y) * score_den(x)
         ELSE score_num(req, x) * score_den(y) < score_num(req, y) * score_den(x)
    [] strategy = "priority" ->
         LET px == x.id \in req.preferred_resources
             py == y.id \in req.preferred_resources
         IN  \/ px /\ ~py
             \/ (px <=> py) /\ available(x) > available(y)

(* list.sort is stable, also with reverse=True: insert each id behind the
   ids it does not sort strictly before *)
RECURSIVE insert_sorted(_, _, _, _, _)
insert_sorted(strategy, req, registry, sorted, id) ==
  IF sorted = << >> THEN <<id>>
  ELSE IF sorts_before(strategy, req, registry[id], registry[Head(sorted)])
       THEN <<id>> \o sorted
       ELSE <<Head(sorted)>> \o insert_sorted(strategy, req, registry, Tail(sorted), id)

RECURSIVE sort_resources(_, _, _, _)
sort_resources(strategy, req, registry, ids) ==
  IF ids = << >> THEN << >>
  ELSE insert_sorted(strategy, req, registry,
                     sort_resources(strategy, req, registry, SubSeq(ids, 1, Len(ids) - 1)),
                     ids[Len(ids)])

(* the inner loop of every strategy: the first resource of the sorted
   candidates whose reserve() accepts takes the requirement.
   st = [registry, allocated_resources, matched] *)
RECURSIVE reserve_first(_, _, _, _, _)
reserve_first(ids, req, index, requester_id, st) ==
  IF ids = << >> THEN st
  ELSE LET id == Head(ids)
           r  == reserve(st.registry[id], req.amount, requester_id)
       IN  IF r[1]
           THEN [registry |-> [st.registry EXCEPT ![id] = r[2]],
                 allocated_resources |->
                     (id :> req.amount) @@ st.allocated_resources,
                 matched |-> st.matched \cup {index}]
           ELSE reserve_first(Tail(ids), req, index, requester_id, st)

(* sorted(requirements, key=priority, reverse=True) as a list of indexes *)
RECURSIVE insert_by_priority(_, _, _)
insert_by_priority(requirements, sorted, i) ==
  IF sorted = << >> THEN <<i>>
  ELSE IF requirements[i].priority > requirements[Head(sorted)].priority
       THEN <<i>> \o sorted
       ELSE <<Head(sorted)>> \o insert_by_priority(requirements, Tail(sorted), i)

RECURSIVE sort_by_priority(_, _)
sort_by_priority(requirements, n) ==
  IF n = 0 THEN << >>
  ELSE insert_by_priority(requirements, sort_by_priority(requirements, n - 1), n)

(* the order in which a strategy walks the requirements *)
requirement_order(strategy, requirements) ==
  IF strategy = "priority"
  THEN sort_by_priority(requirements, Len(requirements))
  ELSE [i \in 1..Len(requirements) |-> i]

(* _apply_greedy_strategy, _apply_balanced_strategy,
   _apply_optimized_strategy, _apply_priority_strategy *)
RECURSIVE apply_strategy(_, _, _, _, _, _)
apply_strategy(strategy, requirements, requester_id, order, walk, st) ==
  IF walk = << >> THEN st
  ELSE LET index == Head(walk)
           req   == requirements[index]
           candidates == sort_resources(strategy, req, st.registry,
                             get_available_resources(st.registry, order, req))
       IN  apply_strategy(strategy, requirements, requester_id, order, Tail(walk),
                          reserve_first(candidates, req, index, requester_id, st))

(* the status create_reservation gives the reservation, lines 178-188 *)
creation_status(allocated_resources, requirements) ==
  IF DOMAIN allocated_resources # {}
  THEN IF Cardinality(DOMAIN allocated_resources) = Len(requirements)
       THEN "pending" ELSE "partial"
  ELSE "failed"

(* the state create_reservation leaves: the strategy's result and the new
   reservation, whose id is its position in active_reservations *)
created(requester_id, requirements, strategy, timeout_seconds) ==
  LET st == apply_strategy(strategy, requirements, requester_id, registry_order,
                           requirement_order(strategy, requirements),
                           [registry |-> resource_registry,
                            allocated_resources |-> << >>,
                            matched |-> {}])
  IN  [registry |-> st.registry,
       matched |-> st.matched,
       reservation |->
         [requester_id |-> requester_id,
          status |-> creation_status(st.allocated_resources, requirements),
          expires_at |-> now + timeout_seconds,
          allocated_resources |-> st.allocated_resources]]

(* Reservation.confirm: <<returned value, reservation, registry>> *)
confirm(reservation, registry, t) ==
  IF reservation.status # "pending"
  THEN <<FALSE, reservation, registry>>
  ELSE IF is_expired(reservation, t)
  THEN <<FALSE, [reservation EXCEPT !.status = "expired"], registry>>
  ELSE <<TRUE, [reservation EXCEPT !.status = "confirmed"],
         [id \in DOMAIN registry |->
            IF id \in DOMAIN reservation.allocated_resources
            THEN [registry[id] EXCEPT !.state = "in_use"]
            ELSE registry[id]]>>

(* the loop of Reservation.release and of cleanup_expired_reservations:
   every allocated resource is asked to release its amount *)
release_all(reservation, registry) ==
  [id \in DOMAIN registry |->
     IF id \in DOMAIN reservation.allocated_resources
     THEN release(registry[id], reservation.allocated_resources[id])[2]
     ELSE registry[id]]

(* Reservation.release without the test of the status in line 96 *)
release_without_status_test(reservation, registry) ==
  LET success == \A id \in DOMAIN reservation.allocated_resources :
                    release(registry[id], reservation.allocated_resources[id])[1]
  IN  <<success,
        IF success THEN [reservation EXCEPT !.status = "released"]
                   ELSE reservation,
        release_all(reservation, registry)>>

(* Reservation.release as an all-or-nothing operation: a refused resource
   leaves every resource as it was *)
release_all_or_nothing(reservation, registry) ==
  IF reservation.status \notin {"confirmed", "partial"}
  THEN <<FALSE, reservation, registry>>
  ELSE LET success == \A id \in DOMAIN reservation.allocated_resources :
                         release(registry[id], reservation.allocated_resources[id])[1]
       IN  <<success,
             IF success THEN [reservation EXCEPT !.status = "released"]
                        ELSE reservation,
             IF success THEN release_all(reservation, registry) ELSE registry>>

(* Reservation.release: <<returned value, reservation, registry>> *)
release_reservation_object(reservation, registry) ==
  IF reservation.status \notin {"confirmed", "partial"}
  THEN <<FALSE, reservation, registry>>
  ELSE LET success == \A id \in DOMAIN reservation.allocated_resources :
                         release(registry[id], reservation.allocated_resources[id])[1]
       IN  <<success,
             IF success THEN [reservation EXCEPT !.status = "released"]
                        ELSE reservation,
             release_all(reservation, registry)>>

(* cleanup_expired_reservations from reservation k on:
   st = [reservations, registry, count] *)
RECURSIVE cleanup_from(_, _, _)
cleanup_from(k, t, st) ==
  IF k > Len(st.reservations) THEN st
  ELSE LET reservation == st.reservations[k]
       IN  IF reservation.status = "pending" /\ is_expired(reservation, t)
           THEN cleanup_from(k + 1, t,
                  [reservations |-> [st.reservations EXCEPT ![k].status = "expired"],
                   registry |-> release_all(reservation, st.registry),
                   count |-> st.count + 1])
           ELSE cleanup_from(k + 1, t, st)

----------------------------------------------------------------------------
(* The last call: the operation, the reservation it was about and the
   returned value (a raised exception by its name; create_reservation
   returns the reservation, shown by its status). *)
Returned(op, id, val) ==
  [op |-> op, id |-> id, val |-> val, requested |-> 0, matched |-> {},
   wait |-> FALSE, unsatisfied |-> << >>]

(* The same for create_reservation and allocate: also the number of
   requirements of the call, the indexes of the requirements for which a
   resource was reserved, wait_if_unavailable, and the
   unsatisfied_requirements of the AllocationResult (none when no result is
   returned). *)
ReturnedFor(op, id, val, requirements, matched, wait) ==
  [op |-> op, id |-> id, val |-> val, requested |-> Len(requirements),
   matched |-> matched, wait |-> wait, unsatisfied |-> << >>]

BoolStr(b) == IF b THEN "True" ELSE "False"

----------------------------------------------------------------------------
(* Operations *)

(* capacity.current is unbounded in the program (a negative amount moves it
   either way without limit); the model follows it within this range *)
WithinBounds(registry) ==
  \A id \in DOMAIN registry :
     registry[id].current \in (0 - MaxCurrent)..MaxCurrent

Init ==
  /\ resource_registry = << >>
  /\ registry_order = << >>
  /\ active_reservations = << >>
  /\ now = 0
  /\ validator = None
  /\ pool_manager = None
  /\ dashboard = None
  /\ threads = None
  /\ pending_allocations = << >>
  /\ ret = Returned("init", 0, "None")
  /\ requester_priorities = << >>
  /\ priority_pending = << >>
  /\ quotas = << >>
  /\ collector = << >>
  /\ scaler = None
  /\ resource = None
  /\ pool = None
  /\ detector = None

(* time.time() moves on *)
Tick ==
  /\ now + TickStep <= MaxTicks * TickStep
  /\ now' = now + TickStep
  /\ UNCHANGED <<resource_registry, registry_order, active_reservations,
                 pending_allocations, ret>>

(* ReservationManager.register_resource, for the next resource of the
   catalog: a new Resource with current 0, state AVAILABLE, no owner *)
register_resource ==
  /\ Len(registry_order) < Len(Catalog)
  /\ LET c == Catalog[Len(registry_order) + 1]
     IN  /\ resource_registry' =
               (c.id :> [id |-> c.id, resource_type |-> c.resource_type,
                         current |-> 0, maximum |-> c.maximum,
                         state |-> "available", owner_id |-> None])
               @@ resource_registry
         /\ registry_order' = Append(registry_order, c.id)
  /\ ret' = Returned("register_resource", 0, "None")
  /\ UNCHANGED <<active_reservations, now, pending_allocations>>

(* ReservationManager.create_reservation *)
create_reservation(requester_id, requirements, strategy, timeout_seconds) ==
  /\ Len(active_reservations) < MaxReservations
  /\ LET c == created(requester_id, requirements, strategy, timeout_seconds)
     IN  /\ WithinBounds(c.registry)
         /\ resource_registry' = c.registry
         /\ active_reservations' = Append(active_reservations, c.reservation)
         /\ ret' = ReturnedFor("create_reservation", Len(active_reservations) + 1,
                               c.reservation.status, requirements, c.matched, FALSE)
  /\ UNCHANGED <<registry_order, now, pending_allocations>>

(* ReservationManager.confirm_reservation *)
confirm_reservation(reservation_id) ==
  /\ IF reservation_id \notin DOMAIN active_reservations
     THEN /\ ret' = Returned("confirm_reservation", reservation_id, "False")
          /\ UNCHANGED <<resource_registry, active_reservations>>
     ELSE LET c == confirm(active_reservations[reservation_id], resource_registry, now)
          IN  /\ ret' = Returned("confirm_reservation", reservation_id, BoolStr(c[1]))
              /\ active_reservations' = [active_reservations EXCEPT ![reservation_id] = c[2]]
              /\ WithinBounds(c[3])
              /\ resource_registry' = c[3]
  /\ UNCHANGED <<registry_order, now, pending_allocations>>

(* the state and value ReservationManager.release_reservation leaves *)
released(reservation_id) ==
  IF reservation_id \notin DOMAIN active_reservations
  THEN <<FALSE, active_reservations, resource_registry>>
  ELSE LET c == release_reservation_object(active_reservations[reservation_id],
                                           resource_registry)
       IN  <<c[1],
             [active_reservations EXCEPT ![reservation_id] =
                IF c[1] THEN [c[2] EXCEPT !.status = "released"] ELSE c[2]],
             c[3]>>

(* ReservationManager.release_reservation *)
release_reservation(reservation_id) ==
  /\ LET c == released(reservation_id)
     IN  /\ ret' = Returned("release_reservation", reservation_id, BoolStr(c[1]))
         /\ active_reservations' = c[2]
         /\ WithinBounds(c[3])
         /\ resource_registry' = c[3]
  /\ UNCHANGED <<registry_order, now, pending_allocations>>

(* ReservationManager.cleanup_expired_reservations *)
cleanup_expired_reservations ==
  /\ LET c == cleanup_from(1, now, [reservations |-> active_reservations,
                                    registry |-> resource_registry,
                                    count |-> 0])
     IN  /\ ret' = Returned("cleanup_expired_reservations", 0, c.count)
         /\ active_reservations' = c.reservations
         /\ WithinBounds(c.registry)
         /\ resource_registry' = c.registry
  /\ UNCHANGED <<registry_order, now, pending_allocations>>

----------------------------------------------------------------------------
(* ResourceAllocator (allocation/allocator.py) *)

(* ResourceAllocator.allocate.  The module imports ReservationManager,
   ReservationStrategy and Reservation (line 14) but not ReservationStatus,
   so the first status test (line 95) raises NameError: the call ends there,
   after create_reservation has stored the reservation, and lines 96-129
   are never run. *)
allocate(requester_id, requirements, strategy, wait_if_unavailable) ==
  /\ Len(active_reservations) < MaxReservations
  /\ LET c == created(requester_id, requirements, strategy, DefaultTimeout)
     IN  /\ WithinBounds(c.registry)
         /\ resource_registry' = c.registry
         /\ active_reservations' = Append(active_reservations, c.reservation)
         /\ ret' = ReturnedFor("allocate", Len(active_reservations) + 1, "NameError",
                               requirements, c.matched, wait_if_unavailable)
  /\ UNCHANGED <<registry_order, now, pending_allocations>>

(* ResourceAllocator.release *)
allocator_release(reservation_id) ==
  /\ LET c == released(reservation_id)
     IN  /\ ret' = Returned("release", reservation_id, BoolStr(c[1]))
         /\ active_reservations' = c[2]
         /\ WithinBounds(c[3])
         /\ resource_registry' = c[3]
  /\ UNCHANGED <<registry_order, now, pending_allocations>>

(* ResourceAllocator.retry_pending_allocations: with an empty table the loop
   body is not entered and 0 is returned; the allocate call for a first
   entry would raise as every allocate call does *)
retry_pending_allocations ==
  IF DOMAIN pending_allocations = {}
  THEN /\ ret' = Returned("retry_pending_allocations", 0, 0)
       /\ UNCHANGED <<resource_registry, registry_order, active_reservations,
                      now, pending_allocations>>
  ELSE LET allocation_id == CHOOSE k \in DOMAIN pending_allocations :
                               \A j \in DOMAIN pending_allocations : k <= j
           entry == pending_allocations[allocation_id]
           c == created(entry[1], entry[2], "balanced", DefaultTimeout)
       IN  /\ Len(active_reservations) < MaxReservations
           /\ WithinBounds(c.registry)
           /\ resource_registry' = c.registry
           /\ active_reservations' = Append(active_reservations, c.reservation)
           /\ ret' = ReturnedFor("retry_pending_allocations",
                                 Len(active_reservations) + 1, "NameError",
                                 entry[2], c.matched, FALSE)
           /\ UNCHANGED <<registry_order, now, pending_allocations>>

----------------------------------------------------------------------------

Next ==
  /\ UNCHANGED <<policy_vars, component_vars, control_vars, service_vars>>
  /\ \/ Tick
     \/ register_resource
     \/ \E requester_id \in Requesters, requirements \in RequirementLists,
           strategy \in Strategies, timeout_seconds \in Timeouts :
          create_reservation(requester_id, requirements, strategy, timeout_seconds)
     \/ \E reservation_id \in 1..MaxReservations : confirm_reservation(reservation_id)
     \/ \E reservation_id \in 1..MaxReservations : release_reservation(reservation_id)
     \/ cleanup_expired_reservations
     \/ \E requester_id \in Requesters, requirements \in RequirementLists,
           strategy \in Strategies, wait_if_unavailable \in BOOLEAN :
          allocate(requester_id, requirements, strategy, wait_if_unavailable)
     \/ \E reservation_id \in 1..MaxReservations : allocator_release(reservation_id)
     \/ retry_pending_allocations

Spec == Init /\ [][Next]_vars


----------------------------------------------------------------------------
(* PriorityAllocationPolicy (policies/allocation_policy.py) *)

PolicyRequesters == {"task-1", "task-2"}

Priorities == {1, 5}

(* str.__lt__ on the requester ids *)
str_lt(a, b) == a = "task-1" /\ b = "task-2"

(* list.__lt__ on two requirement lists: the first pair of unequal elements
   is compared with <, which ResourceRequirement (a dataclass without
   order=True) does not support; without such a pair the shorter list is
   the smaller *)
RECURSIVE list_lt(_, _)
list_lt(a, b) ==
  IF a = << >> THEN BoolStr(b # << >>)
  ELSE IF b = << >> THEN "False"
  ELSE IF Head(a) = Head(b) THEN list_lt(Tail(a), Tail(b))
  ELSE "TypeError"

(* tuple.__lt__ on two queue entries (neg_priority, requester_id,
   requirements): decided by the first component in which they differ *)
entry_lt(x, y) ==
  IF x[1] # y[1] THEN BoolStr(x[1] < y[1])
  ELSE IF x[2] # y[2] THEN BoolStr(str_lt(x[2], y[2]))
  ELSE list_lt(x[3], y[3])

swap(heap, i, j) == [heap EXCEPT ![i] = heap[j], ![j] = heap[i]]

(* heapq's siftdown: the entry at pos moves towards the root while it is
   smaller than its parent; positions count from 1 *)
RECURSIVE siftdown(_, _, _)
siftdown(heap, startpos, pos) ==
  IF pos <= startpos THEN [heap |-> heap, raised |-> None]
  ELSE LET parentpos == pos \div 2
           lt == entry_lt(heap[pos], heap[parentpos])
       IN  IF lt = "TypeError" THEN [heap |-> heap, raised |-> "TypeError"]
           ELSE IF lt = "True"
                THEN siftdown(swap(heap, pos, parentpos), startpos, parentpos)
                ELSE [heap |-> heap, raised |-> None]

(* heapq.heappush *)
heappush(heap, item) == siftdown(Append(heap, item), 1, Len(heap) + 1)

(* heapq's siftup: the smaller child moves up until pos is a leaf, then
   siftdown from there *)
RECURSIVE siftup(_, _, _)
siftup(heap, startpos, pos) ==
  IF 2 * pos > Len(heap) THEN siftdown(heap, startpos, pos)
  ELSE LET lt == IF 2 * pos + 1 <= Len(heap)
                 THEN entry_lt(heap[2 * pos], heap[2 * pos + 1])
                 ELSE "True"
           childpos == IF lt = "True" THEN 2 * pos ELSE 2 * pos + 1
       IN  IF lt = "TypeError" THEN [heap |-> heap, raised |-> "TypeError"]
           ELSE siftup(swap(heap, pos, childpos), startpos, childpos)

(* heapq.heappop of a non-empty heap: the last entry replaces the root,
   which is returned *)
heappop(heap) ==
  LET lastelt == heap[Len(heap)]
      rest == SubSeq(heap, 1, Len(heap) - 1)
  IN  IF rest = << >>
      THEN [heap |-> rest, item |-> lastelt, raised |-> None]
      ELSE LET s == siftup([rest EXCEPT ![1] = lastelt], 1, 1)
           IN  [heap |-> s.heap, item |-> rest[1], raised |-> s.raised]

(* PriorityAllocationPolicy.get_requester_priority *)
get_requester_priority(requester_id) ==
  IF requester_id \in DOMAIN requester_priorities
  THEN requester_priorities[requester_id] ELSE 0

(* PriorityAllocationPolicy.set_requester_priority *)
set_requester_priority(requester_id, priority) ==
  /\ requester_priorities' =
        (requester_id :> priority) @@ requester_priorities
  /\ ret' = Returned("set_requester_priority", 0, "None")
  /\ UNCHANGED <<resource_registry, registry_order, active_reservations, now,
                 pending_allocations, priority_pending, quotas>>

(* PriorityAllocationPolicy.allocate: allocator.allocate (line 291, with
   its defaults BALANCED and wait_if_unavailable False) raises NameError,
   which ends the call before the queue is pushed to (lines 293-301) *)
priority_allocate(requester_id, requirements) ==
  /\ Len(active_reservations) < MaxReservations
  /\ LET priority == get_requester_priority(requester_id)
         c == created(requester_id, requirements, "balanced", DefaultTimeout)
     IN  /\ WithinBounds(c.registry)
         /\ resource_registry' = c.registry
         /\ active_reservations' = Append(active_reservations, c.reservation)
         /\ ret' = ReturnedFor("priority_allocate", Len(active_reservations) + 1,
                               "NameError", requirements, c.matched, FALSE)
  /\ UNCHANGED <<registry_order, now, pending_allocations,
                 requester_priorities, priority_pending, quotas>>

(* PriorityAllocationPolicy.process_pending_allocations: with an empty queue
   the loop body is not entered and 0 is returned; for a first entry the
   allocate call (line 320) would raise after heappop has taken the entry
   from the queue *)
process_pending_allocations ==
  IF priority_pending = << >>
  THEN /\ ret' = Returned("process_pending_allocations", 0, 0)
       /\ UNCHANGED <<resource_registry, registry_order, active_reservations,
                      now, pending_allocations, policy_vars>>
  ELSE LET p == heappop(priority_pending)
           c == created(p.item[2], p.item[3], "balanced", DefaultTimeout)
       IN  /\ priority_pending' = p.heap
           /\ IF p.raised # None
              THEN /\ ret' = Returned("process_pending_allocations", 0, p.raised)
                   /\ UNCHANGED <<resource_registry, active_reservations>>
              ELSE /\ Len(active_reservations) < MaxReservations
                   /\ WithinBounds(c.registry)
                   /\ resource_registry' = c.registry
                   /\ active_reservations' =
                         Append(active_reservations, c.reservation)
                   /\ ret' = ReturnedFor("process_pending_allocations",
                                         Len(active_reservations) + 1, "NameError",
                                         p.item[3], c.matched, FALSE)
           /\ UNCHANGED <<registry_order, now, pending_allocations,
                          requester_priorities, quotas>>

PriorityNext ==
  /\ UNCHANGED <<component_vars, control_vars, service_vars>>
  /\ \/ register_resource /\ UNCHANGED policy_vars
     \/ \E requester_id \in PolicyRequesters, priority \in Priorities :
          set_requester_priority(requester_id, priority)
     \/ \E requester_id \in PolicyRequesters, requirements \in RequirementLists :
          priority_allocate(requester_id, requirements)
     \/ process_pending_allocations
     \/ \E reservation_id \in 1..MaxReservations :
          allocator_release(reservation_id) /\ UNCHANGED policy_vars

PrioritySpec == Init /\ [][PriorityNext]_vars

----------------------------------------------------------------------------
(* QuotaAllocationPolicy (policies/allocation_policy.py) *)

QuotaTypes == {"compute"}

QuotaCounts == {1}

QuotaCapacities == {1, 2}

(* ResourceQuota.can_allocate *)
can_allocate(quota, amount) ==
  /\ ~(quota.current_count >= quota.max_count)
  /\ ~(quota.current_capacity + amount > quota.max_capacity)

Max(a, b) == IF a >= b THEN a ELSE b

(* ResourceQuota.update_usage *)
update_usage(quota, count_delta, capacity_delta) ==
  [quota EXCEPT !.current_count = Max(0, quota.current_count + count_delta),
                !.current_capacity = Max(0, quota.current_capacity + capacity_delta)]

(* QuotaAllocationPolicy.get_quota: the key of the quota, None without one *)
get_quota(requester_id, resource_type) ==
  IF <<requester_id, resource_type>> \in DOMAIN quotas
  THEN <<requester_id, resource_type>> ELSE None

(* QuotaAllocationPolicy.set_quota with a new ResourceQuota *)
set_quota(requester_id, resource_type, max_count, max_capacity) ==
  /\ quotas' = (<<requester_id, resource_type>> :>
                   [max_count |-> max_count, max_capacity |-> max_capacity,
                    current_count |-> 0, current_capacity |-> 0]) @@ quotas
  /\ ret' = Returned("set_quota", 0, "None")
  /\ UNCHANGED <<resource_registry, registry_order, active_reservations, now,
                 pending_allocations, requester_priorities, priority_pending>>

(* lines 393-402: the indexes of the requirements that, taken one by one,
   the quota of their type does not admit *)
over_quota(requester_id, requirements) ==
  { i \in 1..Len(requirements) :
      LET k == get_quota(requester_id, requirements[i].resource_type)
      IN  k # None /\ ~can_allocate(quotas[k], requirements[i].amount) }

(* QuotaAllocationPolicy.allocate: the first requirement over its quota ends
   the call with FAILED; otherwise allocator.allocate (line 405) raises
   NameError, which ends the call before the usage is updated (lines
   408-416) *)
quota_allocate(requester_id, requirements) ==
  LET over == over_quota(requester_id, requirements)
  IN  IF over # {}
      THEN /\ ret' = [ReturnedFor("quota_allocate", 0, "FAILED", requirements,
                                  {}, FALSE)
                        EXCEPT !.unsatisfied =
                                  <<CHOOSE i \in over : \A j \in over : i <= j>>]
           /\ UNCHANGED <<resource_registry, registry_order, active_reservations,
                          now, pending_allocations, policy_vars>>
      ELSE /\ Len(active_reservations) < MaxReservations
           /\ LET c == created(requester_id, requirements, "balanced",
                               DefaultTimeout)
              IN  /\ WithinBounds(c.registry)
                  /\ resource_registry' = c.registry
                  /\ active_reservations' =
                        Append(active_reservations, c.reservation)
                  /\ ret' = ReturnedFor("quota_allocate",
                                        Len(active_reservations) + 1, "NameError",
                                        requirements, c.matched, FALSE)
           /\ UNCHANGED <<registry_order, now, pending_allocations, policy_vars>>

(* lines 441-447: update_usage(-1, -amount) for every resource of resources *)
RECURSIVE usage_returned(_, _, _, _)
usage_returned(q, requester_id, resources, ids) ==
  IF ids = {} THEN q
  ELSE LET id == CHOOSE x \in ids : TRUE
           k == IF <<requester_id, resource_registry[id].resource_type>>
                      \in DOMAIN q
                THEN <<requester_id, resource_registry[id].resource_type>>
                ELSE None
       IN  usage_returned(
              IF k = None THEN q
              ELSE [q EXCEPT ![k] = update_usage(q[k], -1, 0 - resources[id])],
              requester_id, resources, ids \ {id})

(* QuotaAllocationPolicy.release, for the resources the reservation
   recorded *)
quota_release(requester_id, reservation_id) ==
  /\ LET c == released(reservation_id)
         resources == IF reservation_id \in DOMAIN active_reservations
                      THEN active_reservations[reservation_id].allocated_resources
                      ELSE << >>
     IN  /\ ret' = Returned("quota_release", reservation_id, BoolStr(c[1]))
         /\ active_reservations' = c[2]
         /\ WithinBounds(c[3])
         /\ resource_registry' = c[3]
         /\ quotas' = IF c[1]
                      THEN usage_returned(quotas, requester_id, resources,
                                          DOMAIN resources)
                      ELSE quotas
  /\ UNCHANGED <<registry_order, now, pending_allocations,
                 requester_priorities, priority_pending>>

QuotaNext ==
  /\ UNCHANGED <<component_vars, control_vars, service_vars>>
  /\ \/ register_resource /\ UNCHANGED policy_vars
     \/ \E requester_id \in PolicyRequesters, resource_type \in QuotaTypes,
           max_count \in QuotaCounts, max_capacity \in QuotaCapacities :
          set_quota(requester_id, resource_type, max_count, max_capacity)
     \/ \E requester_id \in PolicyRequesters, requirements \in RequirementLists :
          quota_allocate(requester_id, requirements)
     \/ \E requester_id \in PolicyRequesters, reservation_id \in 1..MaxReservations :
          quota_release(requester_id, reservation_id)

QuotaSpec == Init /\ [][QuotaNext]_vars

----------------------------------------------------------------------------
(* A Resource on its own (models/resource.py): reserve and release called
   directly *)

ResourceStates ==
  {"available", "reserved", "in_use", "scaling", "maintenance", "failed"}

Owners == {"task-1", "task-2"}

Amounts == (0 - 1)..MaxCurrent

Maxima == 0..MaxCurrent

(* The last call on the resource: the method, its arguments, the returned
   value and the resource as it was before the call *)
Called(op, amount, owner_id, val, before) ==
  [op |-> op, amount |-> amount, owner_id |-> owner_id, val |-> val,
   before |-> before]

(* a Resource as its constructor makes it, with any state and any
   0 <= capacity.current <= capacity.maximum *)
ResourceInit ==
  /\ resource_registry = << >>
  /\ registry_order = << >>
  /\ active_reservations = << >>
  /\ now = 0
  /\ validator = None
  /\ pool_manager = None
  /\ dashboard = None
  /\ threads = None
  /\ pending_allocations = << >>
  /\ requester_priorities = << >>
  /\ priority_pending = << >>
  /\ quotas = << >>
  /\ collector = << >>
  /\ scaler = None
  /\ pool = None
  /\ detector = None
  /\ resource \in { r \in [id : {"r1"}, resource_type : {"compute"},
                           current : 0..MaxCurrent, maximum : Maxima,
                           state : ResourceStates, owner_id : {None}] :
                      r.current <= r.maximum }
  /\ ret = Called("init", 0, None, "None", resource)

(* Resource.reserve *)
resource_reserve(amount, owner_id) ==
  /\ LET c == reserve(resource, amount, owner_id)
     IN  /\ c[2].current \in (0 - MaxCurrent)..MaxCurrent
         /\ resource' = c[2]
         /\ ret' = Called("reserve", amount, owner_id, BoolStr(c[1]), resource)
  /\ UNCHANGED <<resource_registry, registry_order, active_reservations, now,
                 pending_allocations, policy_vars, pool, detector,
                 control_vars, service_vars>>

(* Resource.release *)
resource_release(amount) ==
  /\ LET c == release(resource, amount)
     IN  /\ c[2].current \in (0 - MaxCurrent)..MaxCurrent
         /\ resource' = c[2]
         /\ ret' = Called("release", amount, None, BoolStr(c[1]), resource)
  /\ UNCHANGED <<resource_registry, registry_order, active_reservations, now,
                 pending_allocations, policy_vars, pool, detector,
                 control_vars, service_vars>>

ResourceNext ==
  \/ \E amount \in Amounts, owner_id \in Owners : resource_reserve(amount, owner_id)
  \/ \E amount \in Amounts : resource_release(amount)

ResourceSpec == ResourceInit /\ [][ResourceNext]_vars

----------------------------------------------------------------------------
(* ResourcePool (pooling/pool.py).  An Optional[int] is << >> for None and
   <<n>> for the number n. *)

MaxMembers == 3

PoolIds == 1..MaxMembers

(* The resources the embedder may add: of the pool's type or not, available
   or not *)
PoolCandidates(id) ==
  [id : {id}, resource_type : {"compute", "memory"}, current : {0},
   maximum : {MaxCurrent}, state : {"available", "maintenance"},
   owner_id : {None}]

(* requirement of reserve_resource: None, or a ResourceRequirement for part
   of a resource *)
PoolRequirements ==
  {<< >>, <<[resource_type |-> "compute", amount |-> 1]>>}

PoolReturned(op, val) == [op |-> op, val |-> val]

(* last_activity, a dict in insertion order, as the sequence of its items *)
activity_set(last_activity, id, t) ==
  IF \E i \in DOMAIN last_activity : last_activity[i][1] = id
  THEN [i \in DOMAIN last_activity |->
          IF last_activity[i][1] = id THEN <<id, t>> ELSE last_activity[i]]
  ELSE Append(last_activity, <<id, t>>)

activity_del(last_activity, id) ==
  SelectSeq(last_activity, LAMBDA item : item[1] # id)

(* ResourcePool.__init__ *)
PoolInit ==
  /\ resource_registry = << >>
  /\ registry_order = << >>
  /\ active_reservations = << >>
  /\ now = 0
  /\ validator = None
  /\ pool_manager = None
  /\ dashboard = None
  /\ threads = None
  /\ pending_allocations = << >>
  /\ requester_priorities = << >>
  /\ priority_pending = << >>
  /\ quotas = << >>
  /\ collector = << >>
  /\ scaler = None
  /\ resource = None
  /\ detector = None
  /\ pool \in [resource_type : {"compute"},
               min_size : {1, MaxMembers},
               max_size : {<< >>, <<MaxMembers - 1>>},
               idle_timeout_seconds : {<< >>, <<DefaultTimeout>>},
               resources : {<< >>},
               available_resources : {{}},
               reserved_resources : {<< >>},
               last_activity : {<< >>}]
  /\ ret = PoolReturned("init", "None")

pool_unchanged ==
  UNCHANGED <<resource_registry, registry_order, active_reservations, now,
              pending_allocations, policy_vars, resource, detector,
              control_vars, service_vars>>

(* ResourcePool.add_resource *)
add_resource(r) ==
  /\ IF r.resource_type # pool.resource_type
     THEN /\ ret' = PoolReturned("add_resource", "False")
          /\ UNCHANGED pool
     ELSE IF /\ pool.max_size # << >>
             /\ Cardinality(DOMAIN pool.resources) >= pool.max_size[1]
     THEN /\ ret' = PoolReturned("add_resource", "False")
          /\ UNCHANGED pool
     ELSE /\ pool' = [pool EXCEPT
                 !.resources = (r.id :> r) @@ pool.resources,
                 !.available_resources =
                     IF is_available(r) THEN pool.available_resources \cup {r.id}
                     ELSE pool.available_resources,
                 !.last_activity = activity_set(pool.last_activity, r.id, now)]
          /\ ret' = PoolReturned("add_resource", "True")
  /\ pool_unchanged

(* the pool after ResourcePool.remove_resource of a member *)
removed(p, resource_id) ==
  [p EXCEPT
     !.resources = [id \in DOMAIN p.resources \ {resource_id} |-> p.resources[id]],
     !.available_resources = p.available_resources \ {resource_id},
     !.reserved_resources =
         [id \in DOMAIN p.reserved_resources \ {resource_id} |->
            p.reserved_resources[id]],
     !.last_activity = activity_del(p.last_activity, resource_id)]

(* ResourcePool.remove_resource *)
remove_resource(resource_id) ==
  /\ IF resource_id \notin DOMAIN pool.resources
     THEN /\ ret' = PoolReturned("remove_resource", "None")
          /\ UNCHANGED pool
     ELSE /\ pool' = removed(pool, resource_id)
          /\ ret' = PoolReturned("remove_resource", resource_id)
  /\ pool_unchanged

(* ResourcePool._find_suitable_resource: the ids one of which is returned;
   which one is the iteration order of the set available_resources *)
find_suitable_resource(requirement) ==
  IF requirement = << >> THEN pool.available_resources
  ELSE { id \in pool.available_resources :
           can_be_satisfied_by(requirement[1], pool.resources[id]) }

(* ResourcePool.reserve_resource *)
reserve_resource(requester_id, requirement) ==
  /\ IF find_suitable_resource(requirement) = {}
     THEN /\ ret' = PoolReturned("reserve_resource", "None")
          /\ UNCHANGED pool
     ELSE \E resource_id \in find_suitable_resource(requirement) :
            LET r == pool.resources[resource_id]
                c == reserve(r, IF requirement # << >> THEN requirement[1].amount
                                ELSE available(r),
                             requester_id)
            IN  IF ~c[1]
                THEN /\ ret' = PoolReturned("reserve_resource", "None")
                     /\ UNCHANGED pool
                ELSE /\ pool' = [pool EXCEPT
                           !.resources[resource_id] = c[2],
                           !.available_resources =
                               pool.available_resources \ {resource_id},
                           !.reserved_resources =
                               (resource_id :> requester_id) @@ pool.reserved_resources,
                           !.last_activity =
                               activity_set(pool.last_activity, resource_id, now)]
                     /\ ret' = PoolReturned("reserve_resource", resource_id)
  /\ pool_unchanged

(* ResourcePool.release_resource *)
release_resource(resource_id) ==
  /\ IF \/ resource_id \notin DOMAIN pool.resources
        \/ resource_id \notin DOMAIN pool.reserved_resources
     THEN /\ ret' = PoolReturned("release_resource", "False")
          /\ UNCHANGED pool
     ELSE LET r == pool.resources[resource_id]
              c == release(r, r.current)
          IN  IF ~c[1]
              THEN /\ ret' = PoolReturned("release_resource", "False")
                   /\ UNCHANGED pool
              ELSE /\ pool' = [pool EXCEPT
                         !.resources[resource_id] = c[2],
                         !.reserved_resources =
                             [id \in DOMAIN pool.reserved_resources \ {resource_id} |->
                                pool.reserved_resources[id]],
                         !.available_resources =
                             pool.available_resources \cup {resource_id},
                         !.last_activity =
                             activity_set(pool.last_activity, resource_id, now)]
                   /\ ret' = PoolReturned("release_resource", "True")
  /\ pool_unchanged

(* lines 213-217: the members to remove, in the order of last_activity *)
idle_resources(p, current_time) ==
  LET idle == SelectSeq(p.last_activity,
                LAMBDA item : /\ item[1] \in p.available_resources
                              /\ item[2] < current_time - p.idle_timeout_seconds[1])
  IN  [i \in DOMAIN idle |-> idle[i][1]]

(* lines 227-229 on the whole list, without the cut of lines 219-225 *)
resources_to_remove_uncut(p, current_time) ==
  idle_resources(p, current_time)

(* lines 219-225: the list cut down to what min_size lets go *)
resources_to_remove(p, current_time) ==
  LET idle == idle_resources(p, current_time)
      excess == Cardinality(DOMAIN p.resources) - p.min_size
  IN  IF Cardinality(DOMAIN p.resources) - Len(idle) < p.min_size
      THEN IF excess <= 0 THEN << >>
           ELSE SubSeq(idle, 1, IF excess < Len(idle) THEN excess ELSE Len(idle))
      ELSE idle

RECURSIVE remove_all(_, _)
remove_all(p, ids) ==
  IF ids = << >> THEN p
  ELSE remove_all(IF Head(ids) \in DOMAIN p.resources
                  THEN removed(p, Head(ids)) ELSE p,
                  Tail(ids))

(* ResourcePool.cleanup_idle_resources *)
cleanup_idle_resources ==
  /\ IF pool.idle_timeout_seconds = << >>
     THEN /\ ret' = PoolReturned("cleanup_idle_resources", 0)
          /\ UNCHANGED pool
     ELSE LET ids == resources_to_remove(pool, now)
          IN  /\ pool' = remove_all(pool, ids)
              /\ ret' = PoolReturned("cleanup_idle_resources", Len(ids))
  /\ pool_unchanged

PoolNext ==
  \/ Tick /\ UNCHANGED <<policy_vars, component_vars, control_vars, service_vars>>
  \/ \E id \in PoolIds :
       IF id \in DOMAIN pool.resources
       THEN add_resource(pool.resources[id])
       ELSE \E r \in PoolCandidates(id) : add_resource(r)
  \/ \E resource_id \in PoolIds : remove_resource(resource_id)
  \/ \E requester_id \in Requesters, requirement \in PoolRequirements :
       reserve_resource(requester_id, requirement)
  \/ \E resource_id \in PoolIds : release_resource(resource_id)
  \/ cleanup_idle_resources

PoolSpec == PoolInit /\ [][PoolNext]_vars

----------------------------------------------------------------------------
(* ContentionDetector, ContentionEvent and ContentionResolver
   (contention/detector.py).  An Optional value is << >> for None and <<v>>
   for the value v.  competing_reservations is kept as the set of its
   elements. *)

MaxDemand == 6

DetectorTypeOrder == <<"compute">>

DetectorTypes == {DetectorTypeOrder[i] : i \in DOMAIN DetectorTypeOrder}

SupplyCounts == {0, 2, MaxDemand - 1}

ResolutionStrategies == {"wait", "priority", "preempt", "scale", "redistribute"}

StrategyOverrides == {<< >>, <<"scale">>}

(* The reservations the embedder registers: reservation k has k resources
   of type compute in allocated_resources *)
DetectorReservation(k) ==
  [id |-> k, allocated_resources |-> [i \in 1..k |-> "compute"]]

DetectorReturned(op, val, event, strategy) ==
  [op |-> op, val |-> val, event |-> event, strategy |-> strategy]

(* ContentionDetector.__init__ *)
DetectorInit ==
  /\ resource_registry = << >>
  /\ registry_order = << >>
  /\ active_reservations = << >>
  /\ now = 0
  /\ validator = None
  /\ pool_manager = None
  /\ dashboard = None
  /\ threads = None
  /\ pending_allocations = << >>
  /\ requester_priorities = << >>
  /\ priority_pending = << >>
  /\ quotas = << >>
  /\ collector = << >>
  /\ scaler = None
  /\ resource = None
  /\ pool = None
  /\ detector = [contention_events |-> << >>,
                 resource_demand |-> << >>,
                 resource_supply |-> << >>,
                 reservation_resource_types |-> << >>]
  /\ ret = DetectorReturned("init", "None", << >>, << >>)

detector_unchanged ==
  UNCHANGED <<resource_registry, registry_order, active_reservations, now,
              pending_allocations, policy_vars, resource, pool,
              control_vars, service_vars>>

(* lines 90-96: resource_demand after the resources of a reservation, one
   by one *)
RECURSIVE demand_added(_, _)
demand_added(demand, resource_types) ==
  IF resource_types = << >> THEN demand
  ELSE LET t == Head(resource_types)
           d == IF t \in DOMAIN demand THEN demand ELSE (t :> 0) @@ demand
       IN  demand_added([d EXCEPT ![t] = d[t] + 1], Tail(resource_types))

(* ContentionDetector.register_reservation *)
register_reservation(reservation) ==
  /\ LET demand == demand_added(detector.resource_demand,
                                reservation.allocated_resources)
     IN  /\ \A t \in DOMAIN demand : demand[t] <= MaxDemand
         /\ detector' = [detector EXCEPT
               !.resource_demand = demand,
               !.reservation_resource_types =
                   (reservation.id :>
                      {reservation.allocated_resources[i] :
                         i \in DOMAIN reservation.allocated_resources})
                   @@ detector.reservation_resource_types]
  /\ ret' = DetectorReturned("register_reservation", "None", << >>, << >>)
  /\ detector_unchanged

(* ContentionDetector.unregister_reservation *)
unregister_reservation(reservation_id) ==
  /\ IF reservation_id \in DOMAIN detector.reservation_resource_types
     THEN LET resource_types == detector.reservation_resource_types[reservation_id]
          IN  detector' = [detector EXCEPT
                 !.resource_demand =
                     [t \in DOMAIN detector.resource_demand |->
                        IF t \in resource_types
                        THEN detector.resource_demand[t] - 1
                        ELSE detector.resource_demand[t]],
                 !.reservation_resource_types =
                     [k \in DOMAIN detector.reservation_resource_types
                              \ {reservation_id} |->
                        detector.reservation_resource_types[k]]]
     ELSE UNCHANGED detector
  /\ ret' = DetectorReturned("unregister_reservation", "None", << >>, << >>)
  /\ detector_unchanged

(* ContentionDetector.update_resource_supply *)
update_resource_supply(resource_type, count) ==
  /\ detector' = [detector EXCEPT
        !.resource_supply = (resource_type :> count) @@ detector.resource_supply]
  /\ ret' = DetectorReturned("update_resource_supply", "None", << >>, << >>)
  /\ detector_unchanged

(* ContentionDetector._calculate_contention_severity with < in the place of
   <= in line 190 *)
calculate_contention_severity_below(demand, supply) ==
  IF supply >= demand THEN "none"
  ELSE IF supply = 0 THEN "critical"
  ELSE IF 10 * demand < 12 * supply THEN "low"
  ELSE IF 10 * demand <= 15 * supply THEN "medium"
  ELSE IF demand <= 2 * supply THEN "high"
  ELSE "critical"

(* ContentionDetector._calculate_contention_severity.  ratio is the double
   nearest to demand / supply, and 1.2 the double nearest to 1.2: for
   counts below 2^50 ratio <= 1.2 is 10 * demand <= 12 * supply; 1.5 and 2.0
   are doubles themselves *)
calculate_contention_severity(demand, supply) ==
  IF supply >= demand THEN "none"
  ELSE IF supply = 0 THEN "critical"
  ELSE IF 10 * demand <= 12 * supply THEN "low"
  ELSE IF 10 * demand <= 15 * supply THEN "medium"
  ELSE IF demand <= 2 * supply THEN "high"
  ELSE "critical"

(* lines 137-161 for one resource type: the new event, if there is one *)
detected(resource_type, t) ==
  LET demand == detector.resource_demand[resource_type]
      supply == IF resource_type \in DOMAIN detector.resource_supply
                THEN detector.resource_supply[resource_type] ELSE 0
      severity == calculate_contention_severity(demand, supply)
  IN  IF demand > supply /\ severity # "none"
      THEN <<[id |-> <<resource_type, t>>,
              resource_type |-> resource_type,
              competing_reservations |->
                 { k \in DOMAIN detector.reservation_resource_types :
                     resource_type \in detector.reservation_resource_types[k] },
              severity |-> severity,
              detected_at |-> t,
              resolved_at |-> << >>,
              resolution_strategy |-> << >>]>>
      ELSE << >>

(* the loop of lines 137-161 over the types of resource_demand *)
RECURSIVE detected_all(_, _)
detected_all(resource_types, t) ==
  IF resource_types = << >> THEN << >>
  ELSE (IF Head(resource_types) \in DOMAIN detector.resource_demand
        THEN detected(Head(resource_types), t) ELSE << >>)
       \o detected_all(Tail(resource_types), t)

(* ContentionDetector.detect_contention; the event id is made of the type
   and the second, and a new event takes the place of one with its id *)
detect_contention ==
  /\ LET new_events == detected_all(DetectorTypeOrder, now)
     IN  /\ detector' = [detector EXCEPT
               !.contention_events =
                   [id \in {new_events[i].id : i \in DOMAIN new_events} |->
                      new_events[CHOOSE i \in DOMAIN new_events :
                                    new_events[i].id = id]]
                   @@ detector.contention_events]
         /\ ret' = DetectorReturned("detect_contention", new_events, << >>, << >>)
  /\ detector_unchanged

(* ContentionResolver.__init__: resolution_strategies *)
resolution_strategies ==
  [severity \in {"low", "medium", "high", "critical"} |->
     CASE severity = "low" -> "wait"
       [] severity = "medium" -> "redistribute"
       [] severity = "high" -> "priority"
       [] severity = "critical" -> "preempt"]

(* ContentionResolver._apply_resolution_strategy: the success it returns *)
apply_resolution_strategy(event, strategy) ==
  strategy \in ResolutionStrategies

(* ContentionResolver.resolve_contention without the is_resolved test of
   line 231 *)
resolution_without_resolved_test(event, strategy, t) ==
  LET s == IF strategy = << >>
           THEN IF event.severity \in DOMAIN resolution_strategies
                THEN resolution_strategies[event.severity] ELSE "wait"
           ELSE strategy[1]
  IN  IF apply_resolution_strategy(event, s)
      THEN <<TRUE, [event EXCEPT !.resolved_at = <<t>>,
                                 !.resolution_strategy = <<s>>]>>
      ELSE <<FALSE, event>>

(* ContentionResolver.resolve_contention with ContentionEvent.is_resolved
   and ContentionEvent.resolve: <<success, event afterwards>> *)
resolution(event, strategy, t) ==
  IF event.resolved_at # << >> THEN <<FALSE, event>>
  ELSE LET s == IF strategy = << >>
                THEN IF event.severity \in DOMAIN resolution_strategies
                     THEN resolution_strategies[event.severity] ELSE "wait"
                ELSE strategy[1]
       IN  IF apply_resolution_strategy(event, s)
           THEN <<TRUE, [event EXCEPT !.resolved_at = <<t>>,
                                      !.resolution_strategy = <<s>>]>>
           ELSE <<FALSE, event>>

(* ContentionResolver.resolve_contention on an event of the detector *)
resolve_contention(event_id, strategy) ==
  /\ event_id \in DOMAIN detector.contention_events
  /\ LET c == resolution(detector.contention_events[event_id], strategy, now)
     IN  /\ detector' = [detector EXCEPT !.contention_events[event_id] = c[2]]
         /\ ret' = DetectorReturned("resolve_contention", BoolStr(c[1]),
                                   <<event_id>>, strategy)
  /\ detector_unchanged

DetectorNext ==
  \/ Tick /\ UNCHANGED <<policy_vars, component_vars, control_vars, service_vars>>
  \/ \E k \in 1..MaxReservations : register_reservation(DetectorReservation(k))
  \/ \E reservation_id \in 1..MaxReservations :
       unregister_reservation(reservation_id)
  \/ \E resource_type \in DetectorTypes, count \in SupplyCounts :
       update_resource_supply(resource_type, count)
  \/ detect_contention
  \/ \E event_id \in DOMAIN detector.contention_events,
        strategy \in StrategyOverrides :
       resolve_contention(event_id, strategy)

DetectorSpec == DetectorInit /\ [][DetectorNext]_vars

----------------------------------------------------------------------------
(* MetricSeries and MetricsCollector (monitoring/metrics.py).  collector is
   MetricsCollector.metrics; of a MetricSeries the model keeps max_history
   and values, of a MetricValue its value, timestamp and labels. *)

MaxHistory == 2
MaxValues == 3
MaxScalerTicks == 2

(* values[start:] of Python, for a start of either sign *)
slice_from(values, start) ==
  LET n == Len(values)
      first == IF start < 0
               THEN (IF n + start < 0 THEN 0 ELSE n + start)
               ELSE (IF start > n THEN n ELSE start)
  IN  SubSeq(values, first + 1, n)

(* MetricSeries.add_value *)
add_value(series, value, labels, t) ==
  LET values == Append(series.values,
                       [value |-> value, timestamp |-> t, labels |-> labels])
  IN  [series EXCEPT
         !.values = IF Len(values) > series.max_history
                    THEN slice_from(values, 0 - series.max_history)
                    ELSE values]

(* time.time() moves on by half a cooldown period *)
control_tick ==
  /\ now + (CooldownSeconds \div 2) <= MaxScalerTicks * (CooldownSeconds \div 2)
  /\ now' = now + (CooldownSeconds \div 2)
  /\ UNCHANGED <<resource_registry, registry_order, active_reservations,
                 pending_allocations, ret, policy_vars, component_vars,
                 control_vars, service_vars>>

(* what a call on the collector or on the scaler leaves alone *)
control_unchanged ==
  UNCHANGED <<resource_registry, registry_order, active_reservations, now,
              pending_allocations, policy_vars, component_vars, service_vars>>

(* MetricsCollector.register_metric *)
register_metric(name, max_history) ==
  /\ collector' = (name :> [max_history |-> max_history, values |-> << >>])
                  @@ collector
  /\ ret' = [op |-> "register_metric", name |-> name, val |-> "MetricSeries"]
  /\ control_unchanged /\ UNCHANGED scaler

(* MetricsCollector.record_metric *)
record_metric(name, value, labels) ==
  /\ IF name \notin DOMAIN collector
     THEN /\ ret' = [op |-> "record_metric", name |-> name, val |-> "ValueError"]
          /\ UNCHANGED collector
     ELSE /\ Len(collector[name].values) < MaxValues
          /\ collector' = [collector EXCEPT
                             ![name] = add_value(collector[name], value, labels, now)]
          /\ ret' = [op |-> "record_metric", name |-> name, val |-> "None"]
  /\ control_unchanged /\ UNCHANGED scaler

MetricsNext ==
  \/ control_tick
  \/ \E max_history \in 0..MaxHistory :
       register_metric("resource_wait_time", max_history)
  \/ \E name \in {"resource_wait_time", "resource_contention_rate"},
        value \in {0, 5},
        labels \in {<< >>, [resource_type |-> "compute"]} :
       record_metric(name, value, labels)

MetricsSpec == Init /\ [][MetricsNext]_vars

----------------------------------------------------------------------------
(* ScalingPolicy, ScalingAction and ResourceScaler (scaling/scaler.py).
   policies, a dict in insertion order, is the sequence of its values;
   resource_factory is the set of the types that have a factory.  A reading
   (utilization, contention rate, wait time) is the pair
   <<numerator, denominator>> of the quotient the code computes, with a
   positive denominator.  An Optional value is << >> for None and <<v>> for
   the value v.  A message is kept as the name of its case. *)

MaxCount == 4
MaxActions == 2

(* The policies the embedder registers, in this order; the thresholds are
   the defaults of ScalingPolicy. *)
ScalingPolicies ==
  << [id |-> "p1", resource_type |-> "compute",
      scale_up_utilization_threshold |-> 80,
      scale_down_utilization_threshold |-> 20,
      scale_up_contention_threshold |-> 5,
      scale_down_contention_threshold |-> 0,
      scale_up_wait_time_threshold |-> 10,
      scale_down_wait_time_threshold |-> 1,
      cooldown_seconds |-> CooldownSeconds,
      scale_up_increment |-> 2, scale_down_increment |-> 1,
      min_resources |-> 0, max_resources |-> <<3>>,
      evaluation_window_seconds |-> 300],
     [id |-> "p2", resource_type |-> "compute",
      scale_up_utilization_threshold |-> 80,
      scale_down_utilization_threshold |-> 20,
      scale_up_contention_threshold |-> 5,
      scale_down_contention_threshold |-> 0,
      scale_up_wait_time_threshold |-> 10,
      scale_down_wait_time_threshold |-> 1,
      cooldown_seconds |-> 0,
      scale_up_increment |-> 1, scale_down_increment |-> 1,
      min_resources |-> 1, max_resources |-> << >>,
      evaluation_window_seconds |-> 60] >>

(* ScalingPolicy.evaluate_scaling_direction; ScalingTrigger has no member
   NONE, so that the last return statement raises AttributeError *)
evaluate_scaling_direction(policy, utilization, contention_rate, wait_time) ==
  IF utilization[1] >= policy.scale_up_utilization_threshold * utilization[2]
  THEN <<"up", "utilization">>
  ELSE IF contention_rate[1] >=
            policy.scale_up_contention_threshold * contention_rate[2]
  THEN <<"up", "contention">>
  ELSE IF wait_time[1] >= policy.scale_up_wait_time_threshold * wait_time[2]
  THEN <<"up", "wait_time">>
  ELSE IF utilization[1] <=
            policy.scale_down_utilization_threshold * utilization[2]
  THEN <<"down", "utilization">>
  ELSE IF /\ contention_rate[1] <=
               policy.scale_down_contention_threshold * contention_rate[2]
          /\ wait_time[1] <= policy.scale_down_wait_time_threshold * wait_time[2]
  THEN <<"down", "wait_time">>
  ELSE <<"AttributeError", "NONE">>

(* sum(values) *)
RECURSIVE sum(_)
sum(values) ==
  IF values = << >> THEN 0 ELSE Head(values).value + sum(Tail(values))

(* the values of a series within the window, lines 400-405 and 434-439 *)
windowed(metrics, name, resource_type, window_seconds, t) ==
  IF name \notin DOMAIN metrics THEN << >>
  ELSE SelectSeq(metrics[name].values,
                 LAMBDA v : /\ v.timestamp >= t - window_seconds
                            /\ "resource_type" \in DOMAIN v.labels
                            /\ v.labels["resource_type"] = resource_type)

(* ResourceScaler._get_utilization with MetricSeries.get_average *)
get_utilization(metrics, resource_type, window_seconds, t) ==
  LET name == IF resource_type = "compute" THEN "resource_utilization_compute"
              ELSE "resource_utilization_memory"
      values == IF name \notin DOMAIN metrics THEN << >>
                ELSE SelectSeq(metrics[name].values,
                               LAMBDA v : v.timestamp >= t - window_seconds)
  IN  IF values = << >> THEN <<0, 1>> ELSE <<sum(values), Len(values)>>

(* ResourceScaler._get_contention_rate *)
get_contention_rate(metrics, resource_type, window_seconds, t) ==
  LET values == windowed(metrics, "resource_contention_rate", resource_type,
                         window_seconds, t)
  IN  IF values = << >> THEN <<0, 1>> ELSE <<sum(values) * 60, window_seconds>>

(* ResourceScaler._get_wait_time *)
get_wait_time(metrics, resource_type, window_seconds, t) ==
  LET values == windowed(metrics, "resource_wait_time", resource_type,
                         window_seconds, t)
  IN  IF values = << >> THEN <<0, 1>> ELSE <<sum(values), Len(values)>>

(* ScalingAction.mark_failed *)
mark_failed(action, message) ==
  [action EXCEPT !.status = "failed", !.message = message]

(* ScalingAction.mark_success *)
mark_success(action, actual_count, message) ==
  [action EXCEPT !.actual_count = actual_count, !.status = "success",
                 !.message = message]

(* ResourceScaler._execute_scaling_action without its try statement: the
   exception of the factory leaves the method *)
execute_scaling_action_uncaught(s, action, fault) ==
  LET resource_type == action.resource_type
      current_count == IF resource_type \in DOMAIN s.resource_counts
                       THEN s.resource_counts[resource_type] ELSE 0
      policy == SelectSeq(s.policies, LAMBDA p : p.id = action.policy_id)
      counted(n) == [s EXCEPT !.resource_counts =
                                 (resource_type :> n) @@ s.resource_counts]
  IN
  IF action.direction = "up"
  THEN IF resource_type \notin s.resource_factory
       THEN [scaler |-> s, action |-> mark_failed(action, "No resource factory registered"),
             raised |-> "None"]
       ELSE LET adjust == /\ policy # << >>
                          /\ policy[1].max_resources # << >>
                          /\ current_count + action.requested_count >
                               policy[1].max_resources[1]
                adjusted_count == policy[1].max_resources[1] - current_count
                requested_count == IF adjust THEN adjusted_count
                                   ELSE action.requested_count
                requested == [action EXCEPT !.requested_count = requested_count]
            IN  IF adjust /\ adjusted_count <= 0
                THEN [scaler |-> s,
                      action |-> mark_failed(action, "Already at maximum resources"),
                      raised |-> "None"]
                ELSE IF fault \in 1..requested_count
                THEN [scaler |-> s, action |-> requested,
                      raised |-> "FactoryError"]
                ELSE [scaler |-> counted(current_count + requested_count),
                      action |-> mark_success(requested, requested_count, "Created"),
                      raised |-> "None"]
  ELSE IF action.direction = "down"
  THEN LET enough == IF current_count < action.requested_count
                     THEN current_count ELSE action.requested_count
           adjust == /\ policy # << >>
                     /\ current_count - enough < policy[1].min_resources
           adjusted_count == current_count - policy[1].min_resources
           removed_count == IF adjust THEN adjusted_count ELSE enough
       IN  IF adjust /\ adjusted_count <= 0
           THEN [scaler |-> s,
                 action |-> mark_failed([action EXCEPT !.requested_count = enough],
                                        "Already at minimum resources"),
                 raised |-> "None"]
           ELSE [scaler |-> counted(current_count - removed_count),
                 action |-> mark_success(
                              [action EXCEPT !.requested_count = removed_count],
                              removed_count, "Removed"),
                 raised |-> "None"]
  ELSE [scaler |-> s, action |-> action, raised |-> "None"]

(* ResourceScaler._execute_scaling_action; the factory raises on its
   invocation number fault, fault = 0 for a factory that does not raise *)
execute_scaling_action(s, action, fault) ==
  LET resource_type == action.resource_type
      current_count == IF resource_type \in DOMAIN s.resource_counts
                       THEN s.resource_counts[resource_type] ELSE 0
      policy == SelectSeq(s.policies, LAMBDA p : p.id = action.policy_id)
      counted(n) == [s EXCEPT !.resource_counts =
                                 (resource_type :> n) @@ s.resource_counts]
  IN
  IF action.direction = "up"
  THEN IF resource_type \notin s.resource_factory
       THEN [scaler |-> s, action |-> mark_failed(action, "No resource factory registered"),
             raised |-> "None"]
       ELSE LET adjust == /\ policy # << >>
                          /\ policy[1].max_resources # << >>
                          /\ current_count + action.requested_count >
                               policy[1].max_resources[1]
                adjusted_count == policy[1].max_resources[1] - current_count
                requested_count == IF adjust THEN adjusted_count
                                   ELSE action.requested_count
                requested == [action EXCEPT !.requested_count = requested_count]
            IN  IF adjust /\ adjusted_count <= 0
                THEN [scaler |-> s,
                      action |-> mark_failed(action, "Already at maximum resources"),
                      raised |-> "None"]
                ELSE IF fault \in 1..requested_count
                THEN [scaler |-> s,
                      action |-> mark_failed(requested, "Error creating resources"),
                      raised |-> "None"]
                ELSE [scaler |-> counted(current_count + requested_count),
                      action |-> mark_success(requested, requested_count, "Created"),
                      raised |-> "None"]
  ELSE IF action.direction = "down"
  THEN LET enough == IF current_count < action.requested_count
                     THEN current_count ELSE action.requested_count
           adjust == /\ policy # << >>
                     /\ current_count - enough < policy[1].min_resources
           adjusted_count == current_count - policy[1].min_resources
           removed_count == IF adjust THEN adjusted_count ELSE enough
       IN  IF adjust /\ adjusted_count <= 0
           THEN [scaler |-> s,
                 action |-> mark_failed([action EXCEPT !.requested_count = enough],
                                        "Already at minimum resources"),
                 raised |-> "None"]
           ELSE [scaler |-> counted(current_count - removed_count),
                 action |-> mark_success(
                              [action EXCEPT !.requested_count = removed_count],
                              removed_count, "Removed"),
                 raised |-> "None"]
  ELSE [scaler |-> s, action |-> action, raised |-> "None"]

(* ResourceScaler._create_scaling_action *)
create_scaling_action(policy, direction, trigger, t) ==
  [policy_id |-> policy.id, direction |-> direction, trigger |-> trigger,
   resource_type |-> policy.resource_type,
   requested_count |-> IF direction = "up" THEN policy.scale_up_increment
                       ELSE IF direction = "down" THEN policy.scale_down_increment
                       ELSE 0,
   actual_count |-> 0, timestamp |-> t, status |-> "pending", message |-> ""]

(* no cooldown test at all *)
cooldown_ignored(s, policy, t) == FALSE

(* lines 256-259: the policy is skipped *)
in_cooldown(s, policy, t) ==
  /\ policy.resource_type \in DOMAIN s.last_scaling_time
  /\ t - s.last_scaling_time[policy.resource_type] < policy.cooldown_seconds

(* lines 254-285: the loop of evaluate_scaling from the policy number k on;
   st holds the scaler, the list actions and the exception raised *)
RECURSIVE evaluated(_, _, _, _, _)
evaluated(k, st, metrics, t, fault) ==
  IF k > Len(st.scaler.policies) THEN st
  ELSE
  LET policy == st.scaler.policies[k]
      window == policy.evaluation_window_seconds
      d == evaluate_scaling_direction(
             policy,
             get_utilization(metrics, policy.resource_type, window, t),
             get_contention_rate(metrics, policy.resource_type, window, t),
             get_wait_time(metrics, policy.resource_type, window, t))
      e == execute_scaling_action(
             st.scaler, create_scaling_action(policy, d[1], d[2], t), fault)
  IN  IF in_cooldown(st.scaler, policy, t)
      THEN evaluated(k + 1, st, metrics, t, fault)
      ELSE IF d[1] = "AttributeError"
      THEN [st EXCEPT !.raised = "AttributeError"]
      ELSE IF e.raised # "None"
      THEN [st EXCEPT !.raised = e.raised]
      ELSE IF d[1] # "none"
      THEN evaluated(
             k + 1,
             [scaler |-> [e.scaler EXCEPT
                            !.scaling_actions = Append(@, e.action),
                            !.last_scaling_time = (policy.resource_type :> t) @@ @],
              actions |-> Append(st.actions, e.action),
              raised |-> "None"],
             metrics, t, fault)
      ELSE evaluated(k + 1, st, metrics, t, fault)

(* ResourceScaler.__init__ with a MetricsCollector that holds, for each of
   the three metrics the scaler reads, either nothing or one value recorded
   at time 0 *)
ScalerInit ==
  /\ resource_registry = << >>
  /\ registry_order = << >>
  /\ active_reservations = << >>
  /\ now = 0
  /\ validator = None
  /\ pool_manager = None
  /\ dashboard = None
  /\ threads = None
  /\ pending_allocations = << >>
  /\ requester_priorities = << >>
  /\ priority_pending = << >>
  /\ quotas = << >>
  /\ resource = None
  /\ pool = None
  /\ detector = None
  /\ \E utilization \in {<< >>, <<50>>, <<90>>},
        contention \in {<< >>, <<30>>},
        wait_time \in {<< >>, <<5>>, <<10>>} :
       LET series(name, reading) ==
             IF reading = << >> THEN << >>
             ELSE name :> add_value([max_history |-> 1000, values |-> << >>],
                                    reading[1], [resource_type |-> "compute"], 0)
       IN  collector = series("resource_utilization_compute", utilization)
                       @@ series("resource_contention_rate", contention)
                       @@ series("resource_wait_time", wait_time)
  /\ scaler = [policies |-> << >>, resource_factory |-> {},
               scaling_actions |-> << >>, last_scaling_time |-> << >>,
               resource_counts |-> << >>]
  /\ ret = [op |-> "init", raised |-> "None", val |-> << >>]

(* ResourceScaler.register_policy, for the next policy of ScalingPolicies *)
register_policy ==
  /\ Len(scaler.policies) < Len(ScalingPolicies)
  /\ scaler' = [scaler EXCEPT
                  !.policies = Append(@, ScalingPolicies[Len(scaler.policies) + 1])]
  /\ ret' = [op |-> "register_policy", raised |-> "None", val |-> << >>]
  /\ control_unchanged /\ UNCHANGED collector

(* ResourceScaler.update_resource_count *)
update_resource_count(resource_type, count) ==
  /\ scaler' = [scaler EXCEPT !.resource_counts = (resource_type :> count) @@ @]
  /\ ret' = [op |-> "update_resource_count", raised |-> "None", val |-> << >>]
  /\ control_unchanged /\ UNCHANGED collector

(* ResourceScaler.register_resource_factory *)
register_resource_factory(resource_type) ==
  /\ scaler' = [scaler EXCEPT !.resource_factory = @ \cup {resource_type}]
  /\ ret' = [op |-> "register_resource_factory", raised |-> "None", val |-> << >>]
  /\ control_unchanged /\ UNCHANGED collector

(* ResourceScaler.evaluate_scaling *)
evaluate_scaling(fault) ==
  /\ LET e == evaluated(1, [scaler |-> scaler, actions |-> << >>, raised |-> "None"],
                        collector, now, fault)
     IN  /\ Len(e.scaler.scaling_actions) <= MaxActions
         /\ \A t \in DOMAIN e.scaler.resource_counts :
               e.scaler.resource_counts[t] <= MaxCount
         /\ scaler' = e.scaler
         /\ ret' = [op |-> "evaluate_scaling", raised |-> e.raised,
                    val |-> IF e.raised = "None" THEN e.actions ELSE << >>]
  /\ control_unchanged /\ UNCHANGED collector

(* ResourceScaler.scale_manually *)
scale_manually(resource_type, count, fault) ==
  /\ LET direction == IF count > 0 THEN "up"
                      ELSE IF count < 0 THEN "down" ELSE "none"
         action == [policy_id |-> "", direction |-> direction,
                    trigger |-> "manual", resource_type |-> resource_type,
                    requested_count |-> IF count < 0 THEN 0 - count ELSE count,
                    actual_count |-> 0, timestamp |-> now, status |-> "pending",
                    message |-> ""]
         e == execute_scaling_action(scaler, action, fault)
     IN  /\ Len(scaler.scaling_actions) < MaxActions
         /\ \A t \in DOMAIN e.scaler.resource_counts :
               e.scaler.resource_counts[t] <= MaxCount
         /\ IF e.raised # "None"
            THEN /\ scaler' = scaler
                 /\ ret' = [op |-> "scale_manually", raised |-> e.raised,
                            val |-> << >>]
            ELSE /\ scaler' = [e.scaler EXCEPT
                                 !.scaling_actions = Append(@, e.action),
                                 !.last_scaling_time = (resource_type :> now) @@ @]
                 /\ ret' = [op |-> "scale_manually", raised |-> "None",
                            val |-> <<e.action>>]
  /\ control_unchanged /\ UNCHANGED collector

ScalerNext ==
  \/ control_tick
  \/ register_policy
  \/ update_resource_count("compute", 3)
  \/ register_resource_factory("compute")
  \/ \E fault \in 0..2 : evaluate_scaling(fault)
  \/ \E count \in {0 - 1, 0, 2}, fault \in 0..2 :
       scale_manually("compute", count, fault)

ScalerSpec == ScalerInit /\ [][ScalerNext]_vars

----------------------------------------------------------------------------
(* ResourceConstraint and ResourceRequirement.can_be_satisfied_by with
   constraints (models/resource.py).  A capability value is <<"number", n>>
   or <<"str", s>>; min_value and max_value are << >> for None and <<v>>
   for the value v; required_values and excluded_values are kept as sets. *)

(* ResourceConstraint.validate *)
validate(constraint, value) ==
  IF value[1] = "number"
  THEN /\ ~(constraint.min_value # << >> /\ value[2] < constraint.min_value[1])
       /\ ~(constraint.max_value # << >> /\ value[2] > constraint.max_value[1])
  ELSE /\ ~(constraint.required_values # {}
            /\ value[2] \notin constraint.required_values)
       /\ ~(constraint.excluded_values # {}
            /\ value[2] \in constraint.excluded_values)

(* lines 192-196 of can_be_satisfied_by: no capability of the name of a
   constraint fails the constraint *)
constraints_validated(constraints, capabilities) ==
  \A i \in 1..Len(constraints) :
     \A key \in DOMAIN capabilities :
        ~(key = constraints[i].name /\ ~validate(constraints[i], capabilities[key]))

(* a resource and a requirement with constraints, as their constructors
   make them *)
RequirementInit ==
  /\ resource_registry = << >>
  /\ registry_order = << >>
  /\ active_reservations = << >>
  /\ now = 0
  /\ validator = None
  /\ pool_manager = None
  /\ dashboard = None
  /\ threads = None
  /\ pending_allocations = << >>
  /\ requester_priorities = << >>
  /\ priority_pending = << >>
  /\ quotas = << >>
  /\ collector = << >>
  /\ scaler = None
  /\ pool = None
  /\ detector = None
  /\ \E names \in SUBSET {"memory", "arch"},
        memory \in {32, 128}, arch \in {"x86_64", "arm"},
        resource_type \in {"compute", "memory"}, current \in 0..MaxCurrent :
       resource = [id |-> "r1", resource_type |-> resource_type,
                   current |-> current, maximum |-> MaxCurrent,
                   state |-> "available", owner_id |-> None,
                   capabilities |->
                     [key \in names |-> IF key = "memory"
                                        THEN <<"number", memory>>
                                        ELSE <<"str", arch>>]]
  /\ \E amount \in 1..MaxCurrent,
        constraints \in
          LET memory == [name |-> "memory", min_value |-> <<64>>,
                         max_value |-> << >>, required_values |-> {},
                         excluded_values |-> {}]
              arch == [name |-> "arch", min_value |-> << >>,
                       max_value |-> << >>, required_values |-> {"x86_64"},
                       excluded_values |-> {}]
              other == [name |-> "arch", min_value |-> << >>,
                        max_value |-> <<64>>, required_values |-> {},
                        excluded_values |-> {"arm"}]
          IN  {<< >>, <<memory>>, <<arch>>, <<arch, memory>>, <<other>>} :
       ret = [op |-> "init", val |-> "None",
              requirement |-> [resource_type |-> "compute", amount |-> amount,
                               constraints |-> constraints]]

(* ResourceRequirement.can_be_satisfied_by *)
requirement_check ==
  /\ ret' = [ret EXCEPT
               !.op = "can_be_satisfied_by",
               !.val = BoolStr(/\ can_be_satisfied_by(ret.requirement, resource)
                               /\ constraints_validated(
                                    ret.requirement.constraints,
                                    resource.capabilities))]
  /\ UNCHANGED <<resource_registry, registry_order, active_reservations, now,
                 pending_allocations, policy_vars, component_vars, control_vars, service_vars>>

RequirementSpec == RequirementInit /\ [][requirement_check]_vars

----------------------------------------------------------------------------
(* ResourcePoolManager (pooling/pool.py).  pool_manager.pools maps the id
   of a pool to the ResourcePool; the k-th pool created has id k (created
   counts them).  A Resource that is a member of several pools is one
   object: a change of it shows in every pool that holds it. *)

MaxPools == 2
MaxPoolResources == 1

ManagerPoolIds == 1..MaxPools

(* The resource of this id that the embedder adds: the object a pool holds
   under the id if there is one, a new COMPUTE resource otherwise *)
ManagerResource(id) ==
  IF \E p \in DOMAIN pool_manager.pools : id \in DOMAIN pool_manager.pools[p].resources
  THEN LET p == CHOOSE p \in DOMAIN pool_manager.pools :
                   id \in DOMAIN pool_manager.pools[p].resources
       IN  pool_manager.pools[p].resources[id]
  ELSE [id |-> id, resource_type |-> "compute", current |-> 0,
        maximum |-> MaxCurrent, state |-> "available", owner_id |-> None]

(* ResourcePoolManager.__init__ *)
ManagerInit ==
  /\ resource_registry = << >>
  /\ registry_order = << >>
  /\ active_reservations = << >>
  /\ now = 0
  /\ validator = None
  /\ pending_allocations = << >>
  /\ requester_priorities = << >>
  /\ priority_pending = << >>
  /\ quotas = << >>
  /\ collector = << >>
  /\ scaler = None
  /\ resource = None
  /\ pool = None
  /\ detector = None
  /\ dashboard = None
  /\ threads = None
  /\ pool_manager = [pools |-> << >>, resource_to_pool |-> << >>,
                     type_to_pools |-> << >>, created |-> 0]
  /\ ret = PoolReturned("init", "None")

manager_unchanged ==
  UNCHANGED <<resource_registry, registry_order, active_reservations, now,
              pending_allocations, policy_vars, component_vars, control_vars,
              dashboard, threads, validator>>

(* the manager after ResourcePoolManager.create_pool *)
pool_created(m, resource_type, min_size, idle_timeout_seconds) ==
  LET pool_id == m.created + 1
  IN  [m EXCEPT
         !.pools = (pool_id :>
                      [resource_type |-> resource_type, min_size |-> min_size,
                       max_size |-> << >>,
                       idle_timeout_seconds |-> idle_timeout_seconds,
                       resources |-> << >>, available_resources |-> {},
                       reserved_resources |-> << >>, last_activity |-> << >>])
                   @@ m.pools,
         !.type_to_pools =
             IF resource_type \in DOMAIN m.type_to_pools
             THEN [m.type_to_pools EXCEPT ![resource_type] = Append(@, pool_id)]
             ELSE (resource_type :> <<pool_id>>) @@ m.type_to_pools,
         !.created = pool_id]

(* ResourcePoolManager.create_pool *)
create_pool(resource_type, min_size, idle_timeout_seconds) ==
  /\ pool_manager.created < MaxPools
  /\ pool_manager' = pool_created(pool_manager, resource_type, min_size,
                                  idle_timeout_seconds)
  /\ ret' = PoolReturned("create_pool", pool_manager.created + 1)
  /\ manager_unchanged

(* ResourcePoolManager.remove_pool *)
remove_pool(pool_id) ==
  /\ IF pool_id \notin DOMAIN pool_manager.pools
     THEN /\ ret' = PoolReturned("remove_pool", "False")
          /\ UNCHANGED pool_manager
     ELSE LET p == pool_manager.pools[pool_id]
          IN  /\ pool_manager' = [pool_manager EXCEPT
                    !.resource_to_pool =
                        [id \in DOMAIN pool_manager.resource_to_pool
                                  \ DOMAIN p.resources |->
                           pool_manager.resource_to_pool[id]],
                    !.type_to_pools =
                        IF p.resource_type \in DOMAIN pool_manager.type_to_pools
                        THEN [pool_manager.type_to_pools EXCEPT
                                ![p.resource_type] =
                                    SelectSeq(@, LAMBDA x : x # pool_id)]
                        ELSE pool_manager.type_to_pools,
                    !.pools = [x \in DOMAIN pool_manager.pools \ {pool_id} |->
                                 pool_manager.pools[x]]]
              /\ ret' = PoolReturned("remove_pool", "True")
  /\ manager_unchanged

(* ResourcePoolManager.get_pools_by_type, as the list of the pool ids *)
get_pools_by_type(m, resource_type) ==
  IF resource_type \notin DOMAIN m.type_to_pools THEN << >>
  ELSE m.type_to_pools[resource_type]

(* lines 405-408: the first pool of pools with the largest
   get_available_count() / max(get_total_count(), 1) *)
most_available(m, pools) ==
  LET total(i) == Max(Cardinality(DOMAIN m.pools[pools[i]].resources), 1)
      free(i) == Cardinality(m.pools[pools[i]].available_resources)
      less(i, j) == free(i) * total(j) < free(j) * total(i)
  IN  pools[CHOOSE i \in DOMAIN pools :
              /\ \A j \in DOMAIN pools : ~less(i, j)
              /\ \A j \in DOMAIN pools : j < i => less(j, i)]

(* ResourcePoolManager.add_resource_to_pool; pool_id is << >> for None *)
add_resource_to_pool(r, pool_id) ==
  LET pools == get_pools_by_type(pool_manager, r.resource_type)
      creates == pool_id = << >> /\ pools = << >>
      m == IF creates
           THEN pool_created(pool_manager, r.resource_type, 1, << >>)
           ELSE pool_manager
      chosen == IF pool_id # << >> THEN pool_id[1]
                ELSE IF creates THEN m.created
                ELSE most_available(pool_manager, pools)
  IN  /\ creates => pool_manager.created < MaxPools
      /\ IF chosen \notin DOMAIN m.pools
         THEN /\ ret' = PoolReturned("add_resource_to_pool", "False")
              /\ pool_manager' = m
         ELSE LET p == m.pools[chosen]
              IN  IF \/ r.resource_type # p.resource_type
                     \/ /\ p.max_size # << >>
                        /\ Cardinality(DOMAIN p.resources) >= p.max_size[1]
                  THEN /\ ret' = PoolReturned("add_resource_to_pool", "False")
                       /\ pool_manager' = m
                  ELSE /\ pool_manager' = [m EXCEPT
                             !.pools[chosen] = [p EXCEPT
                                 !.resources = (r.id :> r) @@ p.resources,
                                 !.available_resources =
                                     IF is_available(r)
                                     THEN p.available_resources \cup {r.id}
                                     ELSE p.available_resources,
                                 !.last_activity =
                                     activity_set(p.last_activity, r.id, now)],
                             !.resource_to_pool =
                                 (r.id :> chosen) @@ m.resource_to_pool]
                       /\ ret' = PoolReturned("add_resource_to_pool", "True")
      /\ manager_unchanged

(* ResourcePoolManager.remove_resource_from_pool; self.pools[pool_id] of
   line 435 raises KeyError for a pool that is gone *)
remove_resource_from_pool(resource_id) ==
  /\ IF resource_id \notin DOMAIN pool_manager.resource_to_pool
     THEN /\ ret' = PoolReturned("remove_resource_from_pool", "None")
          /\ UNCHANGED pool_manager
     ELSE LET pool_id == pool_manager.resource_to_pool[resource_id]
          IN  IF pool_id \notin DOMAIN pool_manager.pools
              THEN /\ ret' = PoolReturned("remove_resource_from_pool", "KeyError")
                   /\ UNCHANGED pool_manager
              ELSE IF resource_id \notin DOMAIN pool_manager.pools[pool_id].resources
              THEN /\ ret' = PoolReturned("remove_resource_from_pool", "None")
                   /\ UNCHANGED pool_manager
              ELSE /\ pool_manager' = [pool_manager EXCEPT
                         !.pools[pool_id] = removed(@, resource_id),
                         !.resource_to_pool =
                             [id \in DOMAIN pool_manager.resource_to_pool
                                       \ {resource_id} |->
                                pool_manager.resource_to_pool[id]]]
                   /\ ret' = PoolReturned("remove_resource_from_pool", resource_id)
  /\ manager_unchanged

(* the pools after the Resource object r has changed in pool pool_id, which
   then did the tracking of lines 148-150 or 173-175 (held says which) *)
tracked(pools, pool_id, r, held, owner_id, t) ==
  [q \in DOMAIN pools |->
     LET p == IF r.id \in DOMAIN pools[q].resources
              THEN [pools[q] EXCEPT !.resources[r.id] = r] ELSE pools[q]
     IN  IF q # pool_id THEN p
         ELSE [p EXCEPT
                 !.available_resources =
                     IF held THEN @ \ {r.id} ELSE @ \cup {r.id},
                 !.reserved_resources =
                     IF held THEN (r.id :> owner_id) @@ @
                     ELSE [id \in DOMAIN @ \ {r.id} |-> @[id]],
                 !.last_activity = activity_set(@, r.id, t)]]

(* ResourcePoolManager.reserve_resource over the pools of order, one after
   the other: the set of the <<returned resource id, manager>> it can end
   with; which suitable resource a pool takes is the iteration order of its
   set available_resources *)
RECURSIVE reserve_outcomes(_, _, _, _, _)
reserve_outcomes(m, order, requester_id, requirement, t) ==
  IF order = << >> THEN {<<"None", m>>}
  ELSE LET p == m.pools[Head(order)]
           next == reserve_outcomes(m, Tail(order), requester_id, requirement, t)
           suitable == { id \in p.available_resources :
                           can_be_satisfied_by(requirement, p.resources[id]) }
       IN  IF suitable = {} THEN next
           ELSE UNION {
                  LET c == reserve(p.resources[id], requirement.amount, requester_id)
                  IN  IF ~c[1] THEN next
                      ELSE {<<id, [m EXCEPT !.pools =
                                     tracked(m.pools, Head(order), c[2], TRUE,
                                             requester_id, t)]>>}
                  : id \in suitable }

(* ResourcePoolManager.reserve_resource; preferred_pool_id is << >> for
   None *)
manager_reserve_resource(requester_id, requirement, preferred_pool_id) ==
  /\ LET first == IF /\ preferred_pool_id # << >>
                     /\ preferred_pool_id[1] \in DOMAIN pool_manager.pools
                     /\ pool_manager.pools[preferred_pool_id[1]].resource_type
                          = requirement.resource_type
                  THEN preferred_pool_id ELSE << >>
         others == SelectSeq(get_pools_by_type(pool_manager,
                                               requirement.resource_type),
                             LAMBDA x : <<x>> # preferred_pool_id)
     IN  \E c \in reserve_outcomes(pool_manager, first \o others, requester_id,
                                   requirement, now) :
            /\ pool_manager' = c[2]
            /\ ret' = PoolReturned("manager_reserve_resource", c[1])
  /\ manager_unchanged

(* ResourcePoolManager.release_resource *)
manager_release_resource(resource_id) ==
  /\ IF resource_id \notin DOMAIN pool_manager.resource_to_pool
     THEN /\ ret' = PoolReturned("manager_release_resource", "False")
          /\ UNCHANGED pool_manager
     ELSE LET pool_id == pool_manager.resource_to_pool[resource_id]
          IN  IF pool_id \notin DOMAIN pool_manager.pools
              THEN /\ ret' = PoolReturned("manager_release_resource", "KeyError")
                   /\ UNCHANGED pool_manager
              ELSE LET p == pool_manager.pools[pool_id]
                   IN  IF \/ resource_id \notin DOMAIN p.resources
                          \/ resource_id \notin DOMAIN p.reserved_resources
                          \/ ~release(p.resources[resource_id],
                                      p.resources[resource_id].current)[1]
                       THEN /\ ret' = PoolReturned("manager_release_resource",
                                                   "False")
                            /\ UNCHANGED pool_manager
                       ELSE /\ pool_manager' = [pool_manager EXCEPT !.pools =
                                  tracked(pool_manager.pools, pool_id,
                                          release(p.resources[resource_id],
                                                  p.resources[resource_id].current)[2],
                                          FALSE, None, now)]
                            /\ ret' = PoolReturned("manager_release_resource",
                                                   "True")
  /\ manager_unchanged

(* the loop of ResourcePoolManager.cleanup_idle_resources over the pools
   ids: st = [pools, total_removed] *)
RECURSIVE cleanup_pools(_, _, _)
cleanup_pools(st, ids, t) ==
  IF ids = {} THEN st
  ELSE LET pool_id == CHOOSE x \in ids : \A y \in ids : x <= y
           p == st.pools[pool_id]
           to_remove == IF p.idle_timeout_seconds = << >> THEN << >>
                        ELSE resources_to_remove(p, t)
       IN  cleanup_pools(
              [pools |-> [st.pools EXCEPT ![pool_id] = remove_all(p, to_remove)],
               total_removed |-> st.total_removed + Len(to_remove)],
              ids \ {pool_id}, t)

(* ResourcePoolManager.cleanup_idle_resources *)
manager_cleanup_idle_resources ==
  /\ LET st == cleanup_pools([pools |-> pool_manager.pools, total_removed |-> 0],
                             DOMAIN pool_manager.pools, now)
     IN  /\ pool_manager' = [pool_manager EXCEPT !.pools = st.pools]
         /\ ret' = PoolReturned("manager_cleanup_idle_resources",
                                st.total_removed)
  /\ manager_unchanged

ManagerNext ==
  \/ Tick /\ UNCHANGED <<policy_vars, component_vars, control_vars, service_vars>>
  \/ \E idle_timeout_seconds \in {<< >>, <<DefaultTimeout>>} :
       create_pool("compute", 0, idle_timeout_seconds)
  \/ \E pool_id \in ManagerPoolIds : remove_pool(pool_id)
  \/ \E id \in 1..MaxPoolResources,
        pool_id \in {<< >>} \cup {<<p>> : p \in ManagerPoolIds} :
       add_resource_to_pool(ManagerResource(id), pool_id)
  \/ \E resource_id \in 1..MaxPoolResources :
       remove_resource_from_pool(resource_id)
  \/ \E preferred_pool_id \in {<< >>, <<MaxPools>>} :
       manager_reserve_resource("task-1",
                                [resource_type |-> "compute", amount |-> MaxCurrent],
                                preferred_pool_id)
  \/ \E resource_id \in 1..MaxPoolResources :
       manager_release_resource(resource_id)
  \/ manager_cleanup_idle_resources

ManagerSpec == ManagerInit /\ [][ManagerNext]_vars

----------------------------------------------------------------------------
(* Threads that call evaluate_scaling and scale_manually of one
   ResourceScaler (scaling/scaler.py).  threads.lock is scaling_lock: the
   thread that holds it, 0 when it is free.  Of each thread the model keeps
   its position pc, the call it makes, and seen, the scaler's fields as the
   body read them.  A body reads the fields at one point and writes them at
   a later one; the calls follow each other so closely that time.time() is
   the same whole second for all of them. *)

MaxThreads == 2

ThreadIds == 1..MaxThreads

(* The calls a thread makes *)
ThreadCalls ==
  {[op |-> "evaluate_scaling", count |-> 0]}
    \cup {[op |-> "scale_manually", count |-> c] : c \in {0 - 1, 0, 2}}

(* a ResourceScaler with the first policy of ScalingPolicies, a factory for
   its resource type and a MetricsCollector that reports a utilization
   above the threshold *)
ThreadInit ==
  /\ resource_registry = << >>
  /\ registry_order = << >>
  /\ active_reservations = << >>
  /\ now = 0
  /\ validator = None
  /\ pending_allocations = << >>
  /\ requester_priorities = << >>
  /\ priority_pending = << >>
  /\ quotas = << >>
  /\ resource = None
  /\ pool = None
  /\ detector = None
  /\ pool_manager = None
  /\ dashboard = None
  /\ collector = "resource_utilization_compute" :>
                    add_value([max_history |-> 1000, values |-> << >>],
                              90, [resource_type |-> "compute"], 0)
  /\ \E count \in 0..2 :
       scaler = [policies |-> <<ScalingPolicies[1]>>,
                 resource_factory |-> {"compute"},
                 scaling_actions |-> << >>, last_scaling_time |-> << >>,
                 resource_counts |-> "compute" :> count]
  /\ threads = [lock |-> 0, start |-> scaler,
                of |-> [t \in ThreadIds |->
                          [pc |-> "idle", call |-> << >>, seen |-> << >>]]]
  /\ ret = [op |-> "init", raised |-> "None", val |-> << >>]

(* the scaler that the body of call (lines 254-285 or 305-328) leaves when
   it runs on scaler s with nothing else running *)
call_result(s, call, metrics, t) ==
  IF call.op = "evaluate_scaling"
  THEN evaluated(1, [scaler |-> s, actions |-> << >>, raised |-> "None"],
                 metrics, t, 0).scaler
  ELSE LET action == [policy_id |-> "",
                      direction |-> IF call.count > 0 THEN "up"
                                    ELSE IF call.count < 0 THEN "down" ELSE "none",
                      trigger |-> "manual", resource_type |-> "compute",
                      requested_count |-> IF call.count < 0 THEN 0 - call.count
                                          ELSE call.count,
                      actual_count |-> 0, timestamp |-> t, status |-> "pending",
                      message |-> ""]
           e == execute_scaling_action(s, action, 0)
       IN  [e.scaler EXCEPT !.scaling_actions = Append(@, e.action),
                            !.last_scaling_time = ("compute" :> t) @@ @]

(* the scaler s after the writes of a body that read seen and computed
   after from it: the assignments to resource_counts and last_scaling_time
   (lines 516, 546, 284, 326) and the appends to scaling_actions (lines 280,
   323) *)
written(s, seen, after) ==
  LET assigned(field) ==
        { k \in DOMAIN after[field] :
            k \notin DOMAIN seen[field] \/ after[field][k] # seen[field][k] }
      stored(field) ==
        [k \in DOMAIN s[field] \cup assigned(field) |->
           IF k \in assigned(field) THEN after[field][k] ELSE s[field][k]]
  IN  [s EXCEPT
         !.resource_counts = stored("resource_counts"),
         !.last_scaling_time = stored("last_scaling_time"),
         !.scaling_actions =
             @ \o SubSeq(after.scaling_actions, Len(seen.scaling_actions) + 1,
                         Len(after.scaling_actions))]

threads_unchanged ==
  UNCHANGED <<resource_registry, registry_order, active_reservations, now,
              pending_allocations, ret, policy_vars, component_vars, collector,
              pool_manager, dashboard, validator>>

(* a thread calls evaluate_scaling or scale_manually *)
thread_call(t, call) ==
  /\ threads.of[t].pc = "idle"
  /\ threads' = [threads EXCEPT !.of[t].pc = "acquire", !.of[t].call = call]
  /\ UNCHANGED scaler
  /\ threads_unchanged

(* threading.Lock as thread t finds it *)
lock_not_tested(th, t) == TRUE

lock_available(th, t) == th.lock = 0

(* with self.scaling_lock (lines 253, 304): the thread enters when the lock
   is free *)
thread_acquire(t) ==
  /\ threads.of[t].pc = "acquire"
  /\ lock_available(threads, t)
  /\ threads' = [threads EXCEPT !.lock = t, !.of[t].pc = "read"]
  /\ UNCHANGED scaler
  /\ threads_unchanged

(* the body reads last_scaling_time, resource_counts and the other fields
   (lines 256-258, 487) *)
thread_read(t) ==
  /\ threads.of[t].pc = "read"
  /\ threads' = [threads EXCEPT !.of[t].pc = "write", !.of[t].seen = scaler]
  /\ UNCHANGED scaler
  /\ threads_unchanged

(* the body writes what it computed from what it read, and the with block
   ends, which releases the lock *)
thread_write(t) ==
  /\ threads.of[t].pc = "write"
  /\ scaler' = written(scaler, threads.of[t].seen,
                       call_result(threads.of[t].seen, threads.of[t].call,
                                   collector, now))
  /\ threads' = [threads EXCEPT !.lock = 0, !.of[t].pc = "done"]
  /\ threads_unchanged

ThreadNext ==
  \E t \in ThreadIds :
     \/ \E call \in ThreadCalls : thread_call(t, call)
     \/ thread_acquire(t)
     \/ thread_read(t)
     \/ thread_write(t)

ThreadSpec == ThreadInit /\ [][ThreadNext]_vars

----------------------------------------------------------------------------
(* PriorityAllocationPolicy with an allocator of the embedder
   (policies/allocation_policy.py).  allocate and process_pending_allocations
   take the allocator as an argument and use nothing of it but the status of
   the result of allocator.allocate; here that status is the embedder's
   choice, so that requests do enter the queue. *)

MaxQueue == 2

AllocatorOutcomes == {"success", "failed"}

SweepRequirementLists ==
  { <<r>> : r \in { q \in Requirements :
                      q.amount > 0 /\ q.resource_type = "compute" } }

(* PriorityAllocationPolicy.allocate when allocator.allocate returns a
   result of status outcome *)
allocate_through(outcome, requester_id, requirements) ==
  /\ Len(priority_pending) < MaxQueue
  /\ LET priority == get_requester_priority(requester_id)
         h == IF outcome = "failed"
              THEN heappush(priority_pending,
                            <<0 - priority, requester_id, requirements>>)
              ELSE [heap |-> priority_pending, raised |-> None]
     IN  /\ priority_pending' = h.heap
         /\ ret' = [op |-> "allocate_through", raised |-> h.raised,
                    val |-> IF outcome = "failed" THEN "DEFERRED" ELSE "SUCCESS",
                    queued |-> 0, attempted |-> << >>, put_back |-> {}]
  /\ UNCHANGED <<resource_registry, registry_order, active_reservations, now,
                 pending_allocations, requester_priorities, quotas>>

(* the loop of process_pending_allocations (lines 316-327) without its
   break: after putting the entry back it goes on *)
RECURSIVE swept_without_break(_, _)
swept_without_break(st, outcomes) ==
  IF st.heap = << >> \/ outcomes = << >> THEN st
  ELSE LET p == heappop(st.heap)
           tried == [st EXCEPT !.heap = p.heap,
                               !.attempted = Append(@, p.item)]
       IN  IF p.raised # None THEN [st EXCEPT !.heap = p.heap, !.raised = p.raised]
           ELSE IF Head(outcomes) = "success"
           THEN swept_without_break(
                  [tried EXCEPT !.successful_count = @ + 1], Tail(outcomes))
           ELSE LET h == heappush(p.heap, p.item)
                IN  IF h.raised # None
                    THEN [tried EXCEPT !.heap = h.heap, !.raised = h.raised]
                    ELSE swept_without_break(
                           [tried EXCEPT !.heap = h.heap,
                                         !.put_back = @ \cup {Len(tried.attempted)}],
                           Tail(outcomes))

(* the loop of process_pending_allocations (lines 316-327); outcomes are the
   statuses of the results of the allocate calls, in the order of the calls;
   st = [heap, successful_count, attempted, put_back, raised] *)
RECURSIVE swept(_, _)
swept(st, outcomes) ==
  IF st.heap = << >> \/ outcomes = << >> THEN st
  ELSE LET p == heappop(st.heap)
           tried == [st EXCEPT !.heap = p.heap,
                               !.attempted = Append(@, p.item)]
       IN  IF p.raised # None THEN [st EXCEPT !.heap = p.heap, !.raised = p.raised]
           ELSE IF Head(outcomes) = "success"
           THEN swept([tried EXCEPT !.successful_count = @ + 1], Tail(outcomes))
           ELSE LET h == heappush(p.heap, p.item)
                IN  IF h.raised # None
                    THEN [tried EXCEPT !.heap = h.heap, !.raised = h.raised]
                    ELSE [tried EXCEPT !.heap = h.heap,
                                       !.put_back = @ \cup {Len(tried.attempted)}]

(* PriorityAllocationPolicy.process_pending_allocations with an allocator
   whose allocate calls return results of the statuses outcomes *)
process_pending_through(outcomes) ==
  /\ LET st == swept([heap |-> priority_pending, successful_count |-> 0,
                      attempted |-> << >>, put_back |-> {}, raised |-> None],
                     outcomes)
     IN  /\ priority_pending' = st.heap
         /\ ret' = [op |-> "process_pending_through", raised |-> st.raised,
                    val |-> st.successful_count,
                    queued |-> Len(priority_pending),
                    attempted |-> st.attempted, put_back |-> st.put_back]
  /\ UNCHANGED <<resource_registry, registry_order, active_reservations, now,
                 pending_allocations, requester_priorities, quotas>>

SweepNext ==
  /\ UNCHANGED <<component_vars, control_vars, service_vars>>
  /\ \/ \E requester_id \in PolicyRequesters, priority \in Priorities :
          set_requester_priority(requester_id, priority)
     \/ \E outcome \in AllocatorOutcomes, requester_id \in PolicyRequesters,
           requirements \in SweepRequirementLists :
          allocate_through(outcome, requester_id, requirements)
     \/ \E outcomes \in [1..MaxQueue + 1 -> AllocatorOutcomes] :
          process_pending_through(outcomes)

SweepSpec == Init /\ [][SweepNext]_vars

----------------------------------------------------------------------------
(* DashboardWidget and ResourceDashboard (monitoring/dashboard.py).  Of the
   widgets of the default layout the model keeps the gauge
   "overall_utilization"; the embedder may add a second gauge.  The data of
   a widget is a function from metric names to <<value>>, or to << >> for
   None; << >> is the empty dict.  dashboard.obtained is no field of the
   program: it keeps, per widget, <<data>> for the data of the widget's last
   refresh and << >> before the first one. *)

RefreshInterval == 60

(* ResourceDashboard.__init__ with a collector that has the metric of the
   gauge registered *)
DashboardInit ==
  /\ resource_registry = << >>
  /\ registry_order = << >>
  /\ active_reservations = << >>
  /\ now = 0
  /\ validator = None
  /\ pending_allocations = << >>
  /\ requester_priorities = << >>
  /\ priority_pending = << >>
  /\ quotas = << >>
  /\ scaler = None
  /\ resource = None
  /\ pool = None
  /\ detector = None
  /\ pool_manager = None
  /\ threads = None
  /\ collector = "resource_utilization_overall" :>
                    [max_history |-> 1000, values |-> << >>]
  /\ dashboard = [widgets |-> "overall_utilization" :>
                                 [metric_names |-> <<"resource_utilization_overall">>,
                                  refresh_interval_seconds |-> RefreshInterval,
                                  last_updated |-> now],
                  obtained |-> "overall_utilization" :> << >>]
  /\ ret = [op |-> "init", val |-> << >>]

dashboard_unchanged ==
  UNCHANGED <<resource_registry, registry_order, active_reservations, now,
              pending_allocations, policy_vars, component_vars, control_vars,
              pool_manager, threads, validator>>

(* ResourceDashboard.add_widget with a new gauge DashboardWidget *)
add_widget(id, metric_names, refresh_interval_seconds) ==
  /\ dashboard' = [dashboard EXCEPT
        !.widgets = (id :> [metric_names |-> metric_names,
                            refresh_interval_seconds |-> refresh_interval_seconds,
                            last_updated |-> now]) @@ @,
        !.obtained = (id :> << >>) @@ @]
  /\ ret' = [op |-> "add_widget", val |-> << >>]
  /\ dashboard_unchanged

(* DashboardWidget.should_refresh *)
should_refresh(widget, t) ==
  t - widget.last_updated >= widget.refresh_interval_seconds

(* DashboardWidget.refresh of a gauge: the data it returns *)
refresh(widget, metrics) ==
  LET names == { widget.metric_names[i] : i \in DOMAIN widget.metric_names }
  IN  [name \in names \cap DOMAIN metrics |->
         IF metrics[name].values = << >> THEN << >>
         ELSE <<metrics[name].values[Len(metrics[name].values)].value>>]

(* ResourceDashboard.get_dashboard_data; of the entry of a widget the model
   keeps last_updated and data, and refreshed, whether widget.refresh was
   called *)
get_dashboard_data ==
  /\ LET due(id) == should_refresh(dashboard.widgets[id], now)
         data(id) == refresh(dashboard.widgets[id], collector)
     IN  /\ dashboard' = [dashboard EXCEPT
               !.widgets = [id \in DOMAIN dashboard.widgets |->
                              IF due(id)
                              THEN [dashboard.widgets[id] EXCEPT !.last_updated = now]
                              ELSE dashboard.widgets[id]],
               !.obtained = [id \in DOMAIN dashboard.widgets |->
                               IF due(id) THEN <<data(id)>>
                               ELSE dashboard.obtained[id]]]
         /\ ret' = [op |-> "get_dashboard_data",
                    val |-> [id \in DOMAIN dashboard.widgets |->
                               [last_updated |-> IF due(id) THEN now
                                                 ELSE dashboard.widgets[id].last_updated,
                                data |-> IF due(id) THEN data(id) ELSE << >>,
                                refreshed |-> due(id)]]]
  /\ dashboard_unchanged

DashboardNext ==
  \/ control_tick
  \/ \E value \in {0, 5} :
       record_metric("resource_utilization_overall", value, << >>)
  \/ \E refresh_interval_seconds \in {0, 5 * RefreshInterval} :
       add_widget("custom", <<"resource_utilization_overall">>,
                  refresh_interval_seconds)
  \/ get_dashboard_data

DashboardSpec == DashboardInit /\ [][DashboardNext]_vars

----------------------------------------------------------------------------
(* ValidationResult and ResourceValidator (validation/validator.py).  A
   violation is <<"type">>, <<"capacity">>, <<"constraint", name>>,
   <<"missing", name>>, or the message of a custom validator.
   validator.custom_validators is the dict in insertion order, a sequence of
   [name, func]; a validator function of the embedder is "accepts", which
   returns a ValidationResult without violations, or "rejects", which
   returns one with the violation <<"rejected">>. *)

ValidatorNames == {"policy", "audit"}
ValidatorFuncs == {"accepts", "rejects"}

(* the requirements the validator is called with *)
ValidatorRequirements ==
  LET memory == [name |-> "memory", min_value |-> <<64>>,
                 max_value |-> << >>, required_values |-> {},
                 excluded_values |-> {}]
      arch == [name |-> "arch", min_value |-> << >>,
               max_value |-> << >>, required_values |-> {"x86_64"},
               excluded_values |-> {}]
  IN  { [resource_type |-> "compute", amount |-> amount,
         constraints |-> constraints] :
          amount \in 1..MaxCurrent,
          constraints \in {<< >>, <<memory>>, <<arch>>, <<arch, memory>>} }

(* ResourceValidator.__init__, and a resource as its constructor makes it *)
ValidatorInit ==
  /\ resource_registry = << >>
  /\ registry_order = << >>
  /\ active_reservations = << >>
  /\ now = 0
  /\ pool_manager = None
  /\ dashboard = None
  /\ threads = None
  /\ pending_allocations = << >>
  /\ requester_priorities = << >>
  /\ priority_pending = << >>
  /\ quotas = << >>
  /\ collector = << >>
  /\ scaler = None
  /\ pool = None
  /\ detector = None
  /\ \E names \in SUBSET {"memory", "arch"},
        memory \in {32, 128}, arch \in {"x86_64", "arm"},
        resource_type \in {"compute", "memory"}, current \in 0..MaxCurrent :
       resource = [id |-> "r1", resource_type |-> resource_type,
                   current |-> current, maximum |-> MaxCurrent,
                   state |-> "available", owner_id |-> None,
                   capabilities |->
                     [key \in names |-> IF key = "memory"
                                        THEN <<"number", memory>>
                                        ELSE <<"str", arch>>]]
  /\ validator = [custom_validators |-> << >>]
  /\ ret = [op |-> "init", val |-> << >>]

validator_unchanged ==
  UNCHANGED <<resource_registry, registry_order, active_reservations, now,
              pending_allocations, policy_vars, component_vars, control_vars,
              pool_manager, dashboard, threads>>

(* ValidationResult.__init__ *)
ValidationResult == [is_valid |-> TRUE, violations |-> << >>]

(* ValidationResult.add_violation *)
add_violation(result, message) ==
  [is_valid |-> FALSE, violations |-> Append(result.violations, message)]

(* ValidationResult.merge *)
merge(result, other) ==
  IF ~other.is_valid
  THEN [is_valid |-> FALSE, violations |-> result.violations \o other.violations]
  ELSE result

(* a validator function of the embedder, called *)
validator_func(func, r, requirement) ==
  IF func = "rejects" THEN add_violation(ValidationResult, <<"rejected">>)
  ELSE ValidationResult

(* lines 90-103 of validate_resource_for_requirement: the loop over the
   constraints, from the i-th on *)
RECURSIVE constraints_checked(_, _, _, _)
constraints_checked(result, constraints, capabilities, i) ==
  IF i > Len(constraints) THEN result
  ELSE LET constraint == constraints[i]
           next == IF constraint.name \in DOMAIN capabilities
                   THEN IF ~validate(constraint, capabilities[constraint.name])
                        THEN add_violation(result, <<"constraint", constraint.name>>)
                        ELSE result
                   ELSE add_violation(result, <<"missing", constraint.name>>)
       IN  constraints_checked(next, constraints, capabilities, i + 1)

(* lines 106-108: the loop over the custom validators, from the i-th on *)
RECURSIVE custom_applied(_, _, _, _, _)
custom_applied(result, custom_validators, r, requirement, i) ==
  IF i > Len(custom_validators) THEN result
  ELSE custom_applied(
         merge(result, validator_func(custom_validators[i].func, r, requirement)),
         custom_validators, r, requirement, i + 1)

(* a validation that returns at the first violation *)
validated_first_violation(v, r, requirement) ==
  IF r.resource_type # requirement.resource_type
  THEN add_violation(ValidationResult, <<"type">>)
  ELSE IF available(r) < requirement.amount
  THEN add_violation(ValidationResult, <<"capacity">>)
  ELSE LET checked == constraints_checked(ValidationResult,
                        requirement.constraints, r.capabilities, 1)
           all == custom_applied(checked, v.custom_validators, r, requirement, 1)
       IN  IF all.violations = << >> THEN all
           ELSE [is_valid |-> FALSE, violations |-> <<all.violations[1]>>]

(* ResourceValidator.validate_resource_for_requirement: the result *)
validated(v, r, requirement) ==
  IF r.resource_type # requirement.resource_type
  THEN add_violation(ValidationResult, <<"type">>)
  ELSE LET capacity == IF available(r) < requirement.amount
                       THEN add_violation(ValidationResult, <<"capacity">>)
                       ELSE ValidationResult
           checked == constraints_checked(capacity, requirement.constraints,
                                          r.capabilities, 1)
       IN  custom_applied(checked, v.custom_validators, r, requirement, 1)

(* ResourceValidator.validate_resource_for_requirement *)
validate_resource_for_requirement(requirement) ==
  /\ ret' = [op |-> "validate_resource_for_requirement",
             requirement |-> requirement,
             val |-> validated(validator, resource, requirement)]
  /\ UNCHANGED validator
  /\ validator_unchanged

(* ResourceValidator.register_custom_validator *)
register_custom_validator(name, func) ==
  /\ validator' = [validator EXCEPT !.custom_validators =
        IF \E i \in DOMAIN @ : @[i].name = name
        THEN [i \in DOMAIN @ |-> IF @[i].name = name
                                 THEN [name |-> name, func |-> func] ELSE @[i]]
        ELSE Append(@, [name |-> name, func |-> func])]
  /\ ret' = [op |-> "register_custom_validator", val |-> << >>]
  /\ validator_unchanged

(* ResourceValidator.unregister_custom_validator *)
unregister_custom_validator(name) ==
  /\ validator' = [validator EXCEPT !.custom_validators =
                     SelectSeq(@, LAMBDA entry : entry.name # name)]
  /\ ret' = [op |-> "unregister_custom_validator",
             val |-> \E i \in DOMAIN validator.custom_validators :
                        validator.custom_validators[i].name = name]
  /\ validator_unchanged

ValidatorNext ==
  \/ \E requirement \in ValidatorRequirements :
       validate_resource_for_requirement(requirement)
  \/ \E name \in ValidatorNames, func \in ValidatorFuncs :
       register_custom_validator(name, func)
  \/ \E name \in ValidatorNames : unregister_custom_validator(name)

ValidatorSpec == ValidatorInit /\ [][ValidatorNext]_vars

----------------------------------------------------------------------------
(* Notions the properties are stated in *)

Reservation(k) == active_reservations[k]

(* the sum of the amounts that the reservations 1..k whose status is in
   statuses record for resource id in allocated_resources *)
RECURSIVE Recorded(_, _, _)
Recorded(id, statuses, k) ==
  IF k = 0 THEN 0
  ELSE Recorded(id, statuses, k - 1)
       + (IF /\ Reservation(k).status \in statuses
             /\ id \in DOMAIN Reservation(k).allocated_resources
          THEN Reservation(k).allocated_resources[id] ELSE 0)

AllMatched == ret.matched = 1..ret.requested
NoneMatched == ret.matched = {}
SomeMatched == ~AllMatched /\ ~NoneMatched

(* this step is a call of allocate *)
AllocateCall ==
  /\ ret'.op = "allocate"
  /\ Len(active_reservations') = Len(active_reservations) + 1

----------------------------------------------------------------------------
(* C1: every resource keeps 0 <= capacity.current <= capacity.maximum,
   whatever amounts are reserved and released. *)
C1_CapacityInvariant ==
  \A id \in DOMAIN resource_registry :
     /\ 0 <= resource_registry[id].current
     /\ resource_registry[id].current <= resource_registry[id].maximum

(* C2: capacity.current of every registered resource equals the sum of the
   amounts the PENDING, CONFIRMED and PARTIAL reservations record for it. *)
C2_AmountsReflected ==
  \A id \in DOMAIN resource_registry :
     resource_registry[id].current =
        Recorded(id, {"pending", "confirmed", "partial"}, Len(active_reservations))

(* C3: the amounts the CONFIRMED and PARTIAL reservations record for a
   resource never add up to more than its capacity.maximum. *)
C3_ReservationConservation ==
  \A id \in DOMAIN resource_registry :
     Recorded(id, {"confirmed", "partial"}, Len(active_reservations))
        <= resource_registry[id].maximum

(* C4: a reservation that is RELEASED or EXPIRED keeps that status in every
   step; a confirm right after a successful confirm of the same reservation
   returns false, and a release right after a successful release returns
   false, and both leave the reservations and the resources as they were. *)
C4_StatusMonotonic ==
  [][ /\ \A k \in DOMAIN active_reservations :
            Reservation(k).status \in {"released", "expired"}
               => active_reservations'[k].status = Reservation(k).status
      /\ \A k \in DOMAIN active_reservations :
            /\ ( /\ ret = Returned("confirm_reservation", k, "True")
                 /\ confirm_reservation(k) )
               => ( /\ ret'.val = "False"
                    /\ UNCHANGED <<active_reservations, resource_registry>> )
            /\ ( /\ ret \in {Returned("release_reservation", k, "True"),
                             Returned("release", k, "True")}
                 /\ (release_reservation(k) \/ allocator_release(k)) )
               => ( /\ ret'.val = "False"
                    /\ UNCHANGED <<active_reservations, resource_registry>> )
    ]_vars

(* C4 witness: release was called on a reservation that is RELEASED and
   holds resources, and returned false, while another reservation is
   EXPIRED. *)
C4_Witness ==
  /\ ret.op \in {"release_reservation", "release"}
  /\ ret.id \in DOMAIN active_reservations
  /\ Reservation(ret.id).status = "released"
  /\ DOMAIN Reservation(ret.id).allocated_resources # {}
  /\ ret.val = "False"
  /\ \E k \in DOMAIN active_reservations : Reservation(k).status = "expired"

(* C5: an allocate call that matched every requirement returns SUCCESS, with
   the reservation CONFIRMED and every allocated resource IN_USE. *)
C5_FullSuccessConfirmed ==
  (ret.op = "allocate" /\ AllMatched)
     => /\ ret.val = "SUCCESS"
        /\ Reservation(ret.id).status = "confirmed"
        /\ \A id \in DOMAIN Reservation(ret.id).allocated_resources :
              resource_registry[id].state = "in_use"

(* C6: an allocate call without wait_if_unavailable that matched some but
   not all requirements leaves the reservation RELEASED and the
   capacity.current of every resource as it was before the call. *)
C6_PartialReleased ==
  [][ (AllocateCall /\ ~ret'.wait /\ SomeMatched')
         => /\ active_reservations'[ret'.id].status = "released"
            /\ \A id \in DOMAIN resource_registry :
                  resource_registry'[id].current = resource_registry[id].current
    ]_vars

(* C7: every allocate call returns a result whose status is SUCCESS,
   PARTIAL, DEFERRED or FAILED; none ends in a raised exception. *)
C7_AllocateReturnsStatus ==
  ret.op = "allocate" => ret.val \in {"SUCCESS", "PARTIAL", "DEFERRED", "FAILED"}

(* C8: create_reservation leaves the reservation PENDING exactly when every
   requirement was matched, PARTIAL exactly when some but not all were, and
   FAILED exactly when none was. *)
C8_StatusFromMatched ==
  ret.op = "create_reservation"
     => /\ Reservation(ret.id).status = "pending" <=> AllMatched
        /\ Reservation(ret.id).status = "partial" <=> SomeMatched
        /\ Reservation(ret.id).status = "failed"  <=> NoneMatched

(* C9: an allocate call without wait_if_unavailable that matched some but
   not all requirements returns PARTIAL with exactly the unmatched
   requirements, in the order of the call, as unsatisfied_requirements. *)
C9_UnsatisfiedExact ==
  (ret.op = "allocate" /\ ~ret.wait /\ SomeMatched)
     => /\ ret.val = "PARTIAL"
        /\ ret.unsatisfied =
              SelectSeq([i \in 1..ret.requested |-> i], LAMBDA i : i \notin ret.matched)

(* C10: a request is in the pending-allocation table, under its
   reservation's id, exactly from the allocate call that returned DEFERRED
   for it (wait_if_unavailable set, some but not all requirements matched)
   until a retry of it succeeds; so right after such a call the entry is
   there for retry_pending_allocations to attempt. *)
C10_DeferredEntered ==
  /\ (ret.op = "allocate" /\ ret.wait /\ SomeMatched)
        => (ret.val = "DEFERRED" /\ ret.id \in DOMAIN pending_allocations)
  /\ \A k \in DOMAIN pending_allocations :
        k \in DOMAIN active_reservations /\ Reservation(k).status = "partial"

(* this step is a call of PriorityAllocationPolicy.allocate by requester_id
   for requirements of which the allocator could match none, the case in
   which the allocation fails *)
PriorityAllocateFailed(requester_id, requirements) ==
  /\ priority_allocate(requester_id, requirements)
  /\ ret'.matched = {}

(* the queue entry of a request *)
QueueEntry(requester_id, requirements) ==
  <<0 - get_requester_priority(requester_id), requester_id, requirements>>

(* the entries of a queue in the order in which heappop hands them to
   process_pending_allocations *)
RECURSIVE AttemptOrder(_)
AttemptOrder(heap) ==
  IF heap = << >> THEN << >>
  ELSE <<heappop(heap).item>> \o AttemptOrder(heappop(heap).heap)

SamePriority(entries, neg_priority) ==
  SelectSeq(entries, LAMBDA e : e[1] = neg_priority)

(* C11: process_pending_allocations works on the requests the priority
   policy could not satisfy: a request whose allocation fails is returned
   as DEFERRED and is in the pending queue afterwards, where it stays until
   process_pending_allocations allocates it. *)
C11_UnsatisfiedQueued ==
  [][ \A requester_id \in PolicyRequesters, requirements \in RequirementLists :
        PriorityAllocateFailed(requester_id, requirements)
           => /\ ret'.val = "DEFERRED"
              /\ \E i \in DOMAIN priority_pending' :
                    priority_pending'[i] = QueueEntry(requester_id, requirements)
    ]_vars

(* C12: a request that is queued is attempted after every request of the
   same priority that was queued before it, whatever the requester ids and
   requirement lists. *)
C12_FifoWithinPriority ==
  [][ \A requester_id \in PolicyRequesters, requirements \in RequirementLists :
        PriorityAllocateFailed(requester_id, requirements)
           => LET entry == QueueEntry(requester_id, requirements)
              IN  SamePriority(AttemptOrder(priority_pending'), entry[1])
                     = Append(SamePriority(AttemptOrder(priority_pending), entry[1]),
                              entry)
    ]_vars

(* the sum of the amounts that requirements asks of resource_type *)
RECURSIVE Requested(_, _)
Requested(requirements, resource_type) ==
  IF requirements = << >> THEN 0
  ELSE (IF Head(requirements).resource_type = resource_type
        THEN Head(requirements).amount ELSE 0)
       + Requested(Tail(requirements), resource_type)

(* allocating requirements would take the capacity used under a quota of
   requester_id past its max_capacity *)
PastQuota(requester_id, requirements) ==
  \E resource_type \in QuotaTypes :
     /\ <<requester_id, resource_type>> \in DOMAIN quotas
     /\ quotas[<<requester_id, resource_type>>].current_capacity
           + Requested(requirements, resource_type)
         > quotas[<<requester_id, resource_type>>].max_capacity

(* C13: a request through QuotaAllocationPolicy, of one or several
   requirements of a type, that would take the capacity used past the
   quota's max_capacity is refused with FAILED before the allocator is
   called: no reservation is made and no resource is touched. *)
C13_RefusedBeforeAllocator ==
  [][ \A requester_id \in PolicyRequesters, requirements \in RequirementLists :
        (quota_allocate(requester_id, requirements)
           /\ PastQuota(requester_id, requirements))
           => /\ ret'.val = "FAILED"
              /\ UNCHANGED <<resource_registry, active_reservations>>
    ]_vars

(* C14: Resource.reserve(amount, owner) returns true exactly when the
   resource is AVAILABLE with free capacity and amount is at most maximum -
   current; then current has grown by amount, the owner is recorded, and the
   state is RESERVED exactly when current has reached maximum (otherwise it
   is as before); on false the resource is unchanged. *)
C14_ReserveContract ==
  ret.op = "reserve"
     => LET before == ret.before
        IN  /\ ret.val = "True"
                 <=> /\ before.state = "available"
                     /\ before.maximum - before.current > 0
                     /\ ret.amount <= before.maximum - before.current
            /\ ret.val = "True"
                 => /\ resource.current = before.current + ret.amount
                    /\ resource.owner_id = ret.owner_id
                    /\ (resource.state = "reserved")
                          <=> (resource.current = resource.maximum)
                    /\ resource.state \in {"reserved", before.state}
                    /\ resource.maximum = before.maximum
            /\ ret.val = "False" => resource = before

(* a second reservation has taken a partly reserved resource to its
   maximum *)
C14_Witness ==
  /\ ret.op = "reserve"
  /\ ret.val = "True"
  /\ ret.before.current > 0
  /\ resource.state = "reserved"
  /\ resource.current = resource.maximum

(* C15: when reserve(a, owner) has succeeded on an AVAILABLE resource with
   current = c, a release(a) that follows at once succeeds and leaves
   current = c and the state AVAILABLE. *)
C15_RoundTrip ==
  [][ \A amount \in Amounts :
        ( /\ ret.op = "reserve"
          /\ ret.val = "True"
          /\ ret.amount = amount
          /\ ret.before.state = "available"
          /\ resource_release(amount) )
           => /\ ret'.val = "True"
              /\ resource'.current = ret.before.current
              /\ resource'.state = "available"
    ]_vars

(* the number of members of the pool *)
Members(p) == Cardinality(DOMAIN p.resources)

(* the time last_activity holds for a member *)
LastActive(p, id) ==
  LET i == CHOOSE i \in DOMAIN p.last_activity : p.last_activity[i][1] = id
  IN  p.last_activity[i][2]

(* C16: in every state of a ResourcePool the sets available_resources and
   reserved_resources are disjoint and their union is the set of the ids of
   the members. *)
C16_Partition ==
  /\ pool.available_resources \cap DOMAIN pool.reserved_resources = {}
  /\ pool.available_resources \cup DOMAIN pool.reserved_resources
        = DOMAIN pool.resources

(* C17: the pool keeps its size bounds: no operation takes the number of
   members of a pool that holds at least min_size members below min_size,
   and none takes it above max_size when max_size is set. *)
C17_SizeBounds ==
  [][ /\ Members(pool) >= pool.min_size => Members(pool') >= pool.min_size
      /\ pool.max_size # << >> => Members(pool') <= pool.max_size[1]
    ]_vars

(* C18: cleanup_idle_resources leaves a pool of n members with at least
   min(n, min_size) members; it removes only members that are in the
   available set and have been idle for longer than idle_timeout, adds
   none, and returns the number of members it removed. *)
C18_CleanupFloor ==
  [][ cleanup_idle_resources
        => LET gone == DOMAIN pool.resources \ DOMAIN pool'.resources
           IN  /\ Members(pool') >= pool.min_size \/ Members(pool') >= Members(pool)
               /\ DOMAIN pool'.resources \subseteq DOMAIN pool.resources
               /\ \A id \in gone :
                     /\ id \in pool.available_resources
                     /\ pool.idle_timeout_seconds # << >>
                     /\ now - LastActive(pool, id) > pool.idle_timeout_seconds[1]
               /\ ret'.val = Cardinality(gone)
    ]_vars

(* a cleanup has removed members and stopped at min_size, with an idle
   available member left *)
C18_Witness ==
  /\ ret.op = "cleanup_idle_resources"
  /\ ret.val >= 1
  /\ Members(pool) = pool.min_size
  /\ \E id \in pool.available_resources :
        now - LastActive(pool, id) > pool.idle_timeout_seconds[1]

(* resource_demand and resource_supply as detect_contention reads them *)
Demand(resource_type) ==
  IF resource_type \in DOMAIN detector.resource_demand
  THEN detector.resource_demand[resource_type] ELSE 0

Supply(resource_type) ==
  IF resource_type \in DOMAIN detector.resource_supply
  THEN detector.resource_supply[resource_type] ELSE 0

(* the severity for demand over supply, in tenths *)
SeverityOf(demand, supply) ==
  CASE demand <= supply -> "none"
    [] demand > supply /\ supply = 0 -> "critical"
    [] demand > supply /\ supply > 0 /\ 10 * demand <= 12 * supply -> "low"
    [] 10 * demand > 12 * supply /\ supply > 0 /\ 10 * demand <= 15 * supply -> "medium"
    [] 10 * demand > 15 * supply /\ supply > 0 /\ 10 * demand <= 20 * supply -> "high"
    [] 10 * demand > 20 * supply /\ supply > 0 -> "critical"

(* C19: detect_contention returns, for every resource type, one new event
   when demand > supply and none otherwise, and the event's severity is
   that of demand over supply: CRITICAL for supply 0, else LOW up to 1.2,
   MEDIUM up to 1.5, HIGH up to 2.0, CRITICAL above; it is never NONE. *)
C19_SeverityOfDetected ==
  [][ detect_contention
        => \A resource_type \in DetectorTypes :
              LET events == SelectSeq(ret'.val,
                              LAMBDA e : e.resource_type = resource_type)
              IN  /\ Len(events) = (IF Demand(resource_type) > Supply(resource_type)
                                    THEN 1 ELSE 0)
                  /\ \A i \in DOMAIN events :
                        /\ events[i].severity # "none"
                        /\ events[i].severity =
                              SeverityOf(Demand(resource_type), Supply(resource_type))
                        /\ events[i].id \in DOMAIN detector'.contention_events
    ]_vars

(* an event of severity LOW has been detected, for a demand of exactly 1.2
   times the supply *)
C19_Witness ==
  /\ ret.op = "detect_contention"
  /\ Len(ret.val) = 1
  /\ ret.val[1].severity = "low"
  /\ 10 * Demand("compute") = 12 * Supply("compute")

(* the default strategy of a severity *)
DefaultStrategy(severity) ==
  CASE severity = "low" -> "wait"
    [] severity = "medium" -> "redistribute"
    [] severity = "high" -> "priority"
    [] severity = "critical" -> "preempt"

(* C20: resolve_contention on an event that is already resolved, with or
   without a strategy override, returns failure and leaves the event, its
   resolved_at and resolution_strategy among the rest, as it was; on an
   unresolved event without override it succeeds with the default strategy
   of the event's severity. *)
C20_ResolveIdempotent ==
  [][ \A event_id \in DOMAIN detector.contention_events,
         strategy \in StrategyOverrides :
        resolve_contention(event_id, strategy)
           => LET event == detector.contention_events[event_id]
                  after == detector'.contention_events[event_id]
              IN  /\ event.resolved_at # << >>
                        => /\ ret'.val = "False"
                           /\ after.resolved_at = event.resolved_at
                           /\ after.resolution_strategy = event.resolution_strategy
                           /\ after = event
                  /\ (event.resolved_at = << >> /\ strategy = << >>)
                        => /\ ret'.val = "True"
                           /\ after.resolved_at = <<now>>
                           /\ after.resolution_strategy =
                                 <<DefaultStrategy(event.severity)>>
    ]_vars

(* an event resolved earlier by its default strategy has been given to
   resolve_contention again, with an override *)
C20_Witness ==
  /\ ret.op = "resolve_contention"
  /\ ret.val = "False"
  /\ ret.strategy = <<"scale">>
  /\ LET event == detector.contention_events[ret.event[1]]
     IN  /\ event.resolution_strategy = <<DefaultStrategy(event.severity)>>
         /\ event.resolved_at # << >>
         /\ event.resolved_at[1] < now

----------------------------------------------------------------------------
(* ResourceScaler *)

(* the actions that evaluate_scaling produced for the policy, in the order
   of the history *)
PolicyActions(actions, policy_id) ==
  SelectSeq(actions, LAMBDA a : a.policy_id = policy_id /\ a.trigger # "manual")

(* a step that is a call of evaluate_scaling *)
EvaluateCall == \E fault \in 0..2 : evaluate_scaling(fault)

(* C21: two scaling actions that evaluate_scaling produced for the same
   policy are at least cooldown_seconds of the policy apart; and a call of
   evaluate_scaling records no action for a policy that it skips because the
   policy is within its cooldown, leaves resource_counts of a type as it is
   when every policy of the type is skipped, and leaves the whole scaler as
   it is when it skips every policy. *)
C21_CooldownRespected ==
  [][ /\ \A k \in 1..Len(ScalingPolicies) :
           LET mine == PolicyActions(scaler'.scaling_actions, ScalingPolicies[k].id)
           IN  \A i \in 1..Len(mine), j \in 1..Len(mine) :
                  i < j => mine[j].timestamp - mine[i].timestamp
                             >= ScalingPolicies[k].cooldown_seconds
      /\ EvaluateCall =>
           LET skipped == {k \in 1..Len(scaler.policies) :
                             in_cooldown(scaler, scaler.policies[k], now)}
           IN  /\ \A k \in skipped :
                     PolicyActions(scaler'.scaling_actions, scaler.policies[k].id)
                       = PolicyActions(scaler.scaling_actions, scaler.policies[k].id)
               /\ \A t \in DOMAIN scaler'.resource_counts :
                     (\A k \in 1..Len(scaler.policies) :
                         scaler.policies[k].resource_type = t => k \in skipped)
                     => /\ t \in DOMAIN scaler.resource_counts
                        /\ scaler'.resource_counts[t] = scaler.resource_counts[t]
               /\ skipped = 1..Len(scaler.policies) => scaler' = scaler
    ]_vars

(* evaluate_scaling has just skipped the only policy, which acted before and
   is within its cooldown *)
C21_Witness ==
  /\ ret.op = "evaluate_scaling"
  /\ ret.raised = "None"
  /\ ret.val = << >>
  /\ Len(scaler.policies) = 1
  /\ in_cooldown(scaler, scaler.policies[1], now)
  /\ PolicyActions(scaler.scaling_actions, scaler.policies[1].id) # << >>
  /\ now > 0

(* the readings of a policy at time t, as the scaler takes them *)
Readings(policy, t) ==
  << get_utilization(collector, policy.resource_type,
                     policy.evaluation_window_seconds, t),
     get_contention_rate(collector, policy.resource_type,
                         policy.evaluation_window_seconds, t),
     get_wait_time(collector, policy.resource_type,
                   policy.evaluation_window_seconds, t) >>

(* reading x is at least, at most the threshold *)
Meets(x, threshold) == x[1] >= threshold * x[2]
Within(x, threshold) == x[1] <= threshold * x[2]

(* the decision of a policy on three readings: the direction and, for up,
   the trigger *)
Decision(policy, x) ==
  IF Meets(x[1], policy.scale_up_utilization_threshold)
  THEN <<"up", "utilization">>
  ELSE IF Meets(x[2], policy.scale_up_contention_threshold)
  THEN <<"up", "contention">>
  ELSE IF Meets(x[3], policy.scale_up_wait_time_threshold)
  THEN <<"up", "wait_time">>
  ELSE IF \/ Within(x[1], policy.scale_down_utilization_threshold)
          \/ /\ Within(x[2], policy.scale_down_contention_threshold)
             /\ Within(x[3], policy.scale_down_wait_time_threshold)
  THEN <<"down", "any">>
  ELSE <<"none", "none">>

(* the policies that a call of evaluate_scaling in the current state
   evaluates, given the actions it returns: those outside their cooldown,
   also after the actions of the policies before them *)
Evaluated(actions) ==
  {k \in 1..Len(scaler.policies) :
     /\ ~in_cooldown(scaler, scaler.policies[k], now)
     /\ ~ /\ scaler.policies[k].cooldown_seconds > 0
          /\ \E j \in 1..(k - 1) :
                /\ scaler.policies[j].resource_type = scaler.policies[k].resource_type
                /\ PolicyActions(actions, scaler.policies[j].id) # << >>}

(* C22: every call of evaluate_scaling completes normally, and for every
   policy that it evaluates it returns one action with direction up and the
   first trigger met in the order utilization, contention, wait time if an
   up-threshold is met; else one action with direction down if utilization
   is at or below its down-threshold or contention and wait time both are;
   and otherwise no action for the policy. *)
C22_DirectionDecided ==
  [][EvaluateCall =>
       /\ ret'.raised = "None"
       /\ \A k \in Evaluated(ret'.val) :
            LET d == Decision(scaler.policies[k], Readings(scaler.policies[k], now))
                mine == PolicyActions(ret'.val, scaler.policies[k].id)
            IN  IF d[1] = "none" THEN mine = << >>
                ELSE /\ Len(mine) = 1
                     /\ mine[1].direction = d[1]
                     /\ d[1] = "up" => mine[1].trigger = d[2]
    ]_vars

(* resource_counts.get(resource_type, 0) *)
CountOf(s, resource_type) ==
  IF resource_type \in DOMAIN s.resource_counts
  THEN s.resource_counts[resource_type] ELSE 0

(* the count is within the bounds of the policy *)
InBounds(policy, count) ==
  /\ policy.min_resources <= count
  /\ policy.max_resources # << >> => count <= policy.max_resources[1]

(* C23: a call of evaluate_scaling on a scaler whose only policy finds the
   count of its type within [min_resources, max_resources] leaves the count
   within these bounds; an action it returns is failed, with the count
   unchanged, if it is a scale-up and the count was max_resources or a
   scale-down and the count was min_resources; and the actual_count of a
   successful action is the change of the count. *)
C23_CountClamped ==
  [][(/\ EvaluateCall
      /\ Len(scaler.policies) = 1
      /\ InBounds(scaler.policies[1],
                  CountOf(scaler, scaler.policies[1].resource_type)))
     => LET policy == scaler.policies[1]
            before == CountOf(scaler, policy.resource_type)
            after == CountOf(scaler', policy.resource_type)
        IN  /\ InBounds(policy, after)
            /\ \A i \in 1..Len(ret'.val) :
                 LET a == ret'.val[i]
                 IN  /\ (a.direction = "up" /\ <<before>> = policy.max_resources)
                          => (a.status = "failed" /\ after = before)
                     /\ (a.direction = "down" /\ before = policy.min_resources)
                          => (a.status = "failed" /\ after = before)
                     /\ a.status = "success"
                          => a.actual_count = IF a.direction = "up"
                                              THEN after - before
                                              ELSE before - after
    ]_vars

(* the actions that the step has appended to the history *)
Appended ==
  SubSeq(scaler'.scaling_actions, Len(scaler.scaling_actions) + 1,
         Len(scaler'.scaling_actions))

(* the scale-up action meets a fault: no factory for its type, or the
   factory raises on one of the requested_count invocations *)
Faulted(a, fault) ==
  /\ a.direction = "up"
  /\ \/ a.resource_type \notin scaler.resource_factory
     \/ fault \in 1..a.requested_count

(* C24: the exception of a resource factory never leaves evaluate_scaling
   or scale_manually; a scale-up action for whose type no factory is
   registered, or whose factory raises on any of its invocations, is
   appended to the history with status failed and a message, scale_manually
   returns it normally, and a call all of whose actions failed leaves
   resource_counts as it was. *)
C24_FaultContained ==
  [][ /\ \A fault \in 0..2 :
           evaluate_scaling(fault) =>
             /\ ret'.raised # "FactoryError"
             /\ ret'.raised = "None" => ret'.val = Appended
             /\ \A i \in 1..Len(Appended) :
                   Faulted(Appended[i], fault)
                     => /\ Appended[i].status = "failed"
                        /\ Appended[i].message # ""
             /\ (\A i \in 1..Len(Appended) : Appended[i].status = "failed")
                  => scaler'.resource_counts = scaler.resource_counts
      /\ \A count \in {0 - 1, 2}, fault \in 0..2 :
           (/\ scale_manually("compute", count, fault)
            /\ count > 0
            /\ "compute" \notin scaler.resource_factory \/ fault \in 1..count)
           => /\ ret'.raised = "None"
              /\ Len(Appended) = 1
              /\ ret'.val = Appended
              /\ Appended[1].status = "failed"
              /\ Appended[1].message # ""
              /\ scaler'.resource_counts = scaler.resource_counts
    ]_vars

(* evaluate_scaling has returned a scale-up of two resources that failed
   because the registered factory raised *)
C24_Witness ==
  /\ ret.op = "evaluate_scaling"
  /\ ret.raised = "None"
  /\ \E i \in 1..Len(ret.val) :
        /\ ret.val[i].direction = "up"
        /\ ret.val[i].requested_count = 2
        /\ ret.val[i].status = "failed"
        /\ ret.val[i].message = "Error creating resources"
  /\ "compute" \in scaler.resource_factory

----------------------------------------------------------------------------
(* MetricsCollector *)

(* the n most recent of the values, in recording order *)
MostRecent(values, n) ==
  IF n >= Len(values) THEN values
  ELSE SubSeq(values, Len(values) - n + 1, Len(values))

(* C25: record_metric on a registered series leaves in it the max_history
   most recent of the earlier values followed by the new one, at most
   max_history values, for every max_history >= 0; record_metric on a name
   that is not registered raises ValueError and changes no series. *)
C25_BoundedHistory ==
  [][\A name \in {"resource_wait_time", "resource_contention_rate"},
        value \in {0, 5},
        labels \in {<< >>, [resource_type |-> "compute"]} :
       record_metric(name, value, labels) =>
         IF name \in DOMAIN collector
         THEN /\ ret'.val = "None"
              /\ collector'[name].values =
                   MostRecent(Append(collector[name].values,
                                     [value |-> value, timestamp |-> now,
                                      labels |-> labels]),
                              collector[name].max_history)
              /\ Len(collector'[name].values) <= collector[name].max_history
              /\ \A other \in DOMAIN collector \ {name} :
                    collector'[other] = collector[other]
         ELSE /\ ret'.val = "ValueError"
              /\ collector' = collector
    ]_vars

----------------------------------------------------------------------------
(* ResourceRequirement *)

(* C26: can_be_satisfied_by returns true exactly if the types match, the
   free capacity of the resource is at least the amount, and for every
   constraint the resource has a capability of the name of the constraint
   whose value the constraint validates. *)
C26_SatisfiedIff ==
  ret.op = "can_be_satisfied_by" =>
    (ret.val = "True" <=>
       /\ resource.resource_type = ret.requirement.resource_type
       /\ resource.maximum - resource.current >= ret.requirement.amount
       /\ \A i \in 1..Len(ret.requirement.constraints) :
             LET constraint == ret.requirement.constraints[i]
             IN  /\ constraint.name \in DOMAIN resource.capabilities
                 /\ validate(constraint, resource.capabilities[constraint.name]))

----------------------------------------------------------------------------
(* ReservationManager: the expiry sweep *)

(* reservation k is PENDING and past expires_at *)
Due(k) ==
  /\ Reservation(k).status = "pending"
  /\ is_expired(Reservation(k), now)

(* the sum of the amounts that the reservations 1..k that are due record for
   resource id *)
RECURSIVE DueAmount(_, _)
DueAmount(id, k) ==
  IF k = 0 THEN 0
  ELSE DueAmount(id, k - 1)
       + (IF Due(k) /\ id \in DOMAIN Reservation(k).allocated_resources
          THEN Reservation(k).allocated_resources[id] ELSE 0)

(* C27: cleanup_expired_reservations turns every reservation that is PENDING
   and past expires_at into EXPIRED and leaves every other reservation as it
   is; it returns the number of the former; every resource ends with
   capacity.current lowered by the amounts that these reservations recorded
   for it, and a resource that none of them holds is unchanged. *)
C27_SweepFrame ==
  [][cleanup_expired_reservations =>
       /\ \A k \in DOMAIN active_reservations :
             active_reservations'[k] =
               IF Due(k) THEN [Reservation(k) EXCEPT !.status = "expired"]
               ELSE Reservation(k)
       /\ ret'.val = Cardinality({k \in DOMAIN active_reservations : Due(k)})
       /\ \A id \in DOMAIN resource_registry :
             /\ resource_registry'[id].current =
                  resource_registry[id].current
                    - DueAmount(id, Len(active_reservations))
             /\ (\A k \in DOMAIN active_reservations :
                    Due(k) => id \notin DOMAIN Reservation(k).allocated_resources)
                  => resource_registry'[id] = resource_registry[id]
    ]_vars

(* reservation k becomes EXPIRED in the step *)
Expiring(k) ==
  /\ Reservation(k).status # "expired"
  /\ active_reservations'[k].status = "expired"

(* the sum of the amounts that the reservations 1..k that become EXPIRED in
   the step record for resource id *)
RECURSIVE ExpiringAmount(_, _)
ExpiringAmount(id, k) ==
  IF k = 0 THEN 0
  ELSE ExpiringAmount(id, k - 1)
       + (IF Expiring(k) /\ id \in DOMAIN Reservation(k).allocated_resources
          THEN Reservation(k).allocated_resources[id] ELSE 0)

(* C28: a step in which reservations become EXPIRED, through the cleanup
   sweep or through confirm finding the expiry time passed, lowers
   capacity.current of every resource by the amounts that these
   reservations record for it in allocated_resources. *)
C28_ExpiredHoldsNothing ==
  [][\A id \in DOMAIN resource_registry :
        (\E k \in DOMAIN active_reservations :
            Expiring(k) /\ id \in DOMAIN Reservation(k).allocated_resources)
        => resource_registry'[id].current =
             resource_registry[id].current
               - ExpiringAmount(id, Len(active_reservations))
    ]_vars

----------------------------------------------------------------------------
(* ResourceAllocator: deferred requests *)

(* C29: the capacity that allocate reserves for a request it defers (the
   call asks to wait and only some of the requirements are matched) is held
   under the id of the PARTIAL reservation that is the key of the request in
   pending_allocations; and once retry_pending_allocations removes an entry,
   the reservation of that id has been released, so that it holds no
   capacity any more. *)
C29_DeferredNotLeaked ==
  [][ /\ (AllocateCall /\ ret'.wait /\ SomeMatched')
           => ret'.id \in DOMAIN pending_allocations'
      /\ \A k \in DOMAIN pending_allocations :
            k \notin DOMAIN pending_allocations'
              => active_reservations'[k].status = "released"
    ]_vars

----------------------------------------------------------------------------
(* Resource state *)

(* C30: a resource for which a CONFIRMED reservation records an amount is
   in state IN_USE, whatever has happened to the other reservations that
   share the resource. *)
C30_StateFollowsHolders ==
  \A k \in DOMAIN active_reservations :
     Reservation(k).status = "confirmed" =>
       \A id \in DOMAIN Reservation(k).allocated_resources :
          resource_registry[id].state = "in_use"

----------------------------------------------------------------------------
(* Requester accounting of the policies *)

(* the sum of the amounts that resources records for the resources of ids
   that are of resource_type *)
RECURSIVE TypeAmount(_, _, _)
TypeAmount(resources, ids, resource_type) ==
  IF ids = {} THEN 0
  ELSE LET id == CHOOSE x \in ids : TRUE
       IN  TypeAmount(resources, ids \ {id}, resource_type)
           + (IF resource_registry[id].resource_type = resource_type
              THEN resources[id] ELSE 0)

(* the capacity of resource_type that the reservations 1..k of requester_id
   that are not released, expired or failed hold *)
RECURSIVE HeldBy(_, _, _)
HeldBy(requester_id, resource_type, k) ==
  IF k = 0 THEN 0
  ELSE HeldBy(requester_id, resource_type, k - 1)
       + (IF /\ Reservation(k).requester_id = requester_id
             /\ Reservation(k).status \in {"pending", "confirmed", "partial"}
          THEN TypeAmount(Reservation(k).allocated_resources,
                          DOMAIN Reservation(k).allocated_resources,
                          resource_type)
          ELSE 0)

(* C31: an allocate call through QuotaAllocationPolicy changes the recorded
   usage of every quota by as much as it changes the capacity that the
   unreleased reservations of the quota's requester hold of the quota's
   resource type. *)
C31_UsageMatchesHeld ==
  [][(\E requester_id \in PolicyRequesters, requirements \in RequirementLists :
         quota_allocate(requester_id, requirements))
       => \A q \in DOMAIN quotas :
             quotas'[q].current_capacity - quotas[q].current_capacity
               = HeldBy(q[1], q[2], Len(active_reservations))'
                 - HeldBy(q[1], q[2], Len(active_reservations))
    ]_vars

----------------------------------------------------------------------------
(* Reservation.release with a resource that refuses *)

(* reservation k is CONFIRMED or PARTIAL and one of its resources refuses
   to release the recorded amount *)
Refusing(k) ==
  /\ k \in DOMAIN active_reservations
  /\ Reservation(k).status \in {"confirmed", "partial"}
  /\ \E id \in DOMAIN Reservation(k).allocated_resources :
        ~release(resource_registry[id], Reservation(k).allocated_resources[id])[1]

(* C32: when release_reservation is called on a CONFIRMED or PARTIAL
   reservation of which one resource refuses to release its amount, every
   other allocated resource is still released, the call returns false and
   the reservation is left as it was, status included. *)
C32_ReleaseNotAtomic ==
  [][\A k \in 1..MaxReservations :
        (release_reservation(k) /\ Refusing(k))
          => /\ ret'.val = "False"
             /\ active_reservations' = active_reservations
             /\ \A id \in DOMAIN resource_registry :
                   resource_registry'[id] =
                     IF id \in DOMAIN Reservation(k).allocated_resources
                     THEN release(resource_registry[id],
                                  Reservation(k).allocated_resources[id])[2]
                     ELSE resource_registry[id]
    ]_vars

(* a release was refused for a reservation of two resources, one of which
   has given its amount back *)
C32_Witness ==
  /\ ret.op = "release_reservation"
  /\ ret.val = "False"
  /\ ret.id \in DOMAIN active_reservations
  /\ Reservation(ret.id).status \in {"confirmed", "partial"}
  /\ \E id1, id2 \in DOMAIN Reservation(ret.id).allocated_resources :
        /\ id1 # id2
        /\ ~release(resource_registry[id1],
                    Reservation(ret.id).allocated_resources[id1])[1]
        /\ Reservation(ret.id).allocated_resources[id2] > 0
        /\ resource_registry[id2].current = 0

----------------------------------------------------------------------------
(* ContentionDetector: demand *)

(* C33: resource_demand of every resource type it has an entry for is the
   number of registered reservations that hold at least one resource of
   that type. *)
C33_DemandCountsReservations ==
  \A t \in DOMAIN detector.resource_demand :
     detector.resource_demand[t] =
       Cardinality({k \in DOMAIN detector.reservation_resource_types :
                       t \in detector.reservation_resource_types[k]})

----------------------------------------------------------------------------
(* ResourcePoolManager: the index of the members *)

(* resource id is a member of pool p *)
MemberOf(id, p) ==
  /\ p \in DOMAIN pool_manager.pools
  /\ id \in DOMAIN pool_manager.pools[p].resources

(* C34: resource_to_pool maps a resource id to pool p exactly when the
   resource is a member of p, and no resource is a member of two pools. *)
C34_IndexMatchesMembers ==
  \A id \in 1..MaxPoolResources :
     /\ \A p \in ManagerPoolIds :
           (/\ id \in DOMAIN pool_manager.resource_to_pool
            /\ pool_manager.resource_to_pool[id] = p)
             <=> MemberOf(id, p)
     /\ \A p, q \in ManagerPoolIds :
           MemberOf(id, p) /\ MemberOf(id, q) => p = q

----------------------------------------------------------------------------
(* ResourceScaler: concurrent calls *)

(* what the claim compares of a scaler: the counts and the history *)
Outcome(s) ==
  [resource_counts |-> s.resource_counts, scaling_actions |-> s.scaling_actions]

(* the scaler after the calls of the threads of order, one after the other,
   from s on *)
RECURSIVE Serial(_, _)
Serial(s, order) ==
  IF order = << >> THEN s
  ELSE Serial(call_result(s, threads.of[Head(order)].call, collector, now),
              Tail(order))

(* C35: at most one thread is inside the body of evaluate_scaling or
   scale_manually at a time, and once all threads have returned, the
   resource counts and the action history are those that the calls leave
   in one of their serial orders. *)
C35_CallsSerialize ==
  /\ \A t, u \in ThreadIds :
        /\ threads.of[t].pc \in {"read", "write"}
        /\ threads.of[u].pc \in {"read", "write"}
        => t = u
  /\ (\A t \in ThreadIds : threads.of[t].pc = "done")
       => \E order \in [1..MaxThreads -> ThreadIds] :
             /\ \A i, j \in 1..MaxThreads : order[i] = order[j] => i = j
             /\ Outcome(scaler) = Outcome(Serial(threads.start, order))

(* two calls have returned whose serial orders leave different histories;
   the second of them found the first one's writes *)
C35_Witness ==
  /\ \A t \in ThreadIds : threads.of[t].pc = "done"
  /\ threads.of[1].call.op = "evaluate_scaling"
  /\ threads.of[2].call.op = "scale_manually"
  /\ threads.of[2].call.count = 2
  /\ Outcome(Serial(threads.start, <<1, 2>>))
       # Outcome(Serial(threads.start, <<2, 1>>))
  /\ Len(scaler.scaling_actions) >= 1
  /\ scaler.resource_counts["compute"] > threads.start.resource_counts["compute"]

----------------------------------------------------------------------------
(* The sweeps over queued requests *)

(* C36: a call of process_pending_allocations that starts with n queued
   entries makes at most n allocation attempts, and after an attempt whose
   entry it has put back it makes no further attempt. *)
C36_SingleSweep ==
  ret.op = "process_pending_through"
    => /\ Len(ret.attempted) <= ret.queued
       /\ \A i \in ret.put_back : i = Len(ret.attempted)

(* a sweep over two queued entries has allocated the first and put the
   second back *)
C36_Witness ==
  /\ ret.op = "process_pending_through"
  /\ ret.queued = MaxQueue
  /\ ret.val = 1
  /\ Len(ret.attempted) = 2
  /\ ret.put_back = {2}
  /\ Len(priority_pending) = 1

----------------------------------------------------------------------------
(* ResourceScaler: decided actions *)

(* C37: every action in the scaling history, and every action that
   evaluate_scaling or scale_manually has returned, has status success or
   failed. *)
C37_ActionsDecided ==
  /\ \A i \in DOMAIN scaler.scaling_actions :
        scaler.scaling_actions[i].status \in {"success", "failed"}
  /\ ret.op \in {"evaluate_scaling", "scale_manually"}
       => \A i \in DOMAIN ret.val : ret.val[i].status \in {"success", "failed"}

----------------------------------------------------------------------------
(* ResourceDashboard: cached widget data *)

(* C38: get_dashboard_data refreshes a widget exactly when the time since
   its last refresh is at least its refresh interval, and for a widget that
   is not due and has been refreshed before it returns the data of that
   last refresh. *)
C38_CachedView ==
  [][get_dashboard_data =>
       \A id \in DOMAIN dashboard.widgets :
          /\ ret'.val[id].refreshed
               <=> now - dashboard.widgets[id].last_updated
                     >= dashboard.widgets[id].refresh_interval_seconds
          /\ (~ret'.val[id].refreshed /\ dashboard.obtained[id] # << >>)
               => ret'.val[id].data = dashboard.obtained[id][1]
    ]_vars

----------------------------------------------------------------------------
(* ResourceValidator: every failed check is reported *)

(* what the check of the i-th constraint of requirement finds on resource r *)
Finding(r, requirement, i) ==
  LET constraint == requirement.constraints[i]
  IN  IF constraint.name \notin DOMAIN r.capabilities
      THEN <<"missing", constraint.name>>
      ELSE IF validate(constraint, r.capabilities[constraint.name])
      THEN <<"passed">>
      ELSE <<"constraint", constraint.name>>

(* the violations of the checks of the validator itself: one for
   insufficient capacity, then one for each constraint that fails *)
OwnViolations(r, requirement) ==
  (IF r.maximum - r.current < requirement.amount
   THEN <<<<"capacity">>>> ELSE << >>)
  \o SelectSeq([i \in 1..Len(requirement.constraints) |->
                  Finding(r, requirement, i)],
               LAMBDA finding : finding # <<"passed">>)

(* C39: validate_resource_for_requirement reports every failed check: when
   the types match, the violation list holds one entry for insufficient
   capacity and one for each constraint that is violated or whose capability
   is missing (followed only by the violations of registered custom
   validators, and by nothing when none is registered); is_valid is true
   exactly if the list is empty; a type mismatch returns that single
   violation. *)
C39_AllViolationsReported ==
  [][(\E requirement \in ValidatorRequirements :
        validate_resource_for_requirement(requirement)) =>
       LET requirement == ret'.requirement
           violations == ret'.val.violations
           own == OwnViolations(resource, requirement)
       IN  /\ ret'.val.is_valid <=> violations = << >>
           /\ resource.resource_type # requirement.resource_type
                => violations = <<<<"type">>>>
           /\ resource.resource_type = requirement.resource_type
                => /\ Len(violations) >= Len(own)
                   /\ SubSeq(violations, 1, Len(own)) = own
                   /\ \A i \in Len(own) + 1..Len(violations) :
                         violations[i] = <<"rejected">>
                   /\ validator.custom_validators = << >> => violations = own
    ]_vars

(* a validation has reported insufficient capacity, a violated constraint
   and a missing capability at once, with no custom validator registered *)
C39_Witness ==
  /\ ret.op = "validate_resource_for_requirement"
  /\ validator.custom_validators = << >>
  /\ resource.resource_type = ret.requirement.resource_type
  /\ resource.maximum - resource.current < ret.requirement.amount
  /\ ret.val.violations =
       <<<<"capacity">>, <<"constraint", "arch">>, <<"missing", "memory">>>>
  /\ ~ret.val.is_valid

----------------------------------------------------------------------------
(* ReservationManager: the GREEDY and BALANCED strategies *)

(* the registered resources that are available and can satisfy req *)
Candidates(registry, req) ==
  { id \in DOMAIN registry :
      /\ registry[id].state = "available"
      /\ registry[id].maximum - registry[id].current > 0
      /\ registry[id].resource_type = req.resource_type
      /\ registry[id].maximum - registry[id].current >= req.amount }

(* the candidates the strategy may place req on: under GREEDY those of the
   largest available capacity, under BALANCED those of the lowest
   utilization percentage *)
Preferred(strategy, registry, req) ==
  { id \in Candidates(registry, req) :
      \A other \in Candidates(registry, req) :
         IF strategy = "greedy"
         THEN registry[other].maximum - registry[other].current
                <= registry[id].maximum - registry[id].current
         ELSE ~utilization_less(registry[other], registry[id]) }

(* the outcomes [registry, placed] of placing the requirements from the
   i-th on, one after the other in list order, each on a preferred candidate
   of the registry that the earlier ones have left *)
RECURSIVE Placements(_, _, _, _, _)
Placements(strategy, requirements, requester_id, i, st) ==
  IF i > Len(requirements) THEN {st}
  ELSE LET req == requirements[i]
           preferred == Preferred(strategy, st.registry, req)
       IN  IF preferred = {}
           THEN Placements(strategy, requirements, requester_id, i + 1, st)
           ELSE UNION {
                  Placements(strategy, requirements, requester_id, i + 1,
                    [registry |-> [st.registry EXCEPT ![id] =
                        [@ EXCEPT !.current = @ + req.amount,
                                  !.state = IF st.registry[id].current + req.amount
                                                 >= st.registry[id].maximum
                                            THEN "reserved" ELSE @,
                                  !.owner_id = requester_id]],
                     placed |-> st.placed \cup {id}]) :
                  id \in preferred }

(* C40: under GREEDY create_reservation places each requirement, in list
   order and on the capacity the earlier ones have left, on a candidate of
   the largest available capacity among the registered resources that are
   available and can satisfy it; under BALANCED on a candidate of the lowest
   utilization percentage. *)
C40_GreedyPlacement ==
  [][\A requester_id \in Requesters, requirements \in RequirementLists,
        strategy \in {"greedy", "balanced"}, timeout_seconds \in Timeouts :
       (/\ ret'.op = "create_reservation"
        /\ create_reservation(requester_id, requirements, strategy, timeout_seconds))
         => [registry |-> resource_registry',
             placed |-> DOMAIN active_reservations'[Len(active_reservations')]
                                 .allocated_resources]
              \in Placements(strategy, requirements, requester_id, 1,
                             [registry |-> resource_registry, placed |-> {}])
    ]_vars

(* a GREEDY reservation of two requirements of amount 1 has been created on
   r1 (capacity 2) and r2 (capacity 1), both free before: the first went to
   r1, and the second, seeing one unit left on each, went to r1 as well *)
C40_Witness ==
  /\ ret.op = "create_reservation"
  /\ ret.requested = 2
  /\ ret.matched = {1, 2}
  /\ Len(active_reservations) = 1
  /\ DOMAIN resource_registry = {"r1", "r2"}
  /\ resource_registry["r1"].current = 2
  /\ resource_registry["r2"].current = 0
  /\ DOMAIN active_reservations[1].allocated_resources = {"r1"}

====
